---------------------------- MODULE Spec2Model ----------------------------
(***************************************************************************)
(* A model of the rustomaton library (src/src/nfa.rs, dfa.rs, regex.rs,     *)
(* utils.rs).                                                              *)
(*                                                                         *)
(* An NFA is the record [alphabet, initials, finals, transitions] of       *)
(* nfa.rs:19-24.  States are 0 .. n-1; transitions is a sequence whose     *)
(* element q+1 is the HashMap<V, Vec<usize>> of state q, modelled as a     *)
(* function whose DOMAIN is the set of keys present.  A Vec<usize> of      *)
(* successors is modelled as the set of its elements: the code reads these *)
(* lists only by iteration and is_empty, and builds them by iterating      *)
(* hash maps, so neither order nor multiplicity is observable.             *)
(*                                                                         *)
(* A DFA is the record [alphabet, initial, finals, transitions] of         *)
(* dfa.rs:14-19; its maps send a key to one state.                         *)
(*                                                                         *)
(* A Regex is the record [alphabet, regex] of regex.rs:19-23, regex a tree  *)
(* of enum Operations.                                                     *)
(*                                                                         *)
(* The library is a set of pure functions on values.  The state machine    *)
(* holds the operands a client passes (a, b, word, range), the operation   *)
(* it called (op) and what the call returned (out).  The operand a is an   *)
(* NFA, the fields of a DFA, or a Regex, as the specification's initial    *)
(* predicate says.                                                         *)
(* A client that builds an automaton by a sequence of calls keeps the      *)
(* automaton built so far in a and a second operand in b; calls counts the *)
(* calls it has made.                                                      *)
(***************************************************************************)
EXTENDS Integers, Sequences, FiniteSets, TLC

VARIABLES a, b, word, range, op, out, calls

vars == <<a, b, word, range, op, out, calls>>

(***************************************************************************)
(* Bounds of the model.                                                    *)
(***************************************************************************)
\* The largest number of states of an operand.
MaxStates == 2
\* The largest number of (state, letter, state) transitions of an operand.
MaxTrans == 2
\* The longest word a language is compared on.
MaxWordLen == 3
\* The largest number of transitions of the two operands of a binary
\* operation, taken together.
MaxPairTrans == 3
\* The largest bound of a repetition range.
MaxRepeat == 2

\* The deepest nesting of the operators of a regular expression.
MaxRegexDepth == 2
\* The largest number of children of a Union or Concat of an operand.
MaxKids == 2

\* The symbols the alphabets are drawn from.
Letters == {"x", "y"}

(***************************************************************************)
(* Maps (HashMap<V, _>) as functions with an explicit key set.             *)
(***************************************************************************)
EmptyMap == [k \in {} |-> {}]

\* HashMap::insert / the value left by entry(k).or_insert_with(..) updates
Put(m, k, v) == [x \in (DOMAIN m) \cup {k} |-> IF x = k THEN v ELSE m[x]]

\* HashMap::get of a map of successor lists: None reads as no successor
Get(m, k) == IF k \in DOMAIN m THEN m[k] ELSE {}

Row(A, q) == A.transitions[q + 1]

NumStates(A) == Len(A.transitions)

(***************************************************************************)
(* Words and operands.                                                     *)
(***************************************************************************)
RECURSIVE WordsOfLen(_)
WordsOfLen(n) ==
    IF n = 0 THEN {<<>>}
    ELSE {Append(u, l) : u \in WordsOfLen(n - 1), l \in Letters}

Words == UNION {WordsOfLen(n) : n \in 0..MaxWordLen}

\* words over a given alphabet
WordsOver(alpha) == {w \in Words : \A i \in 1..Len(w) : w[i] \in alpha}

StatesOf(n) == 0..(n - 1)

\* the subsets of S of at most k elements
RECURSIVE SubsetsUpTo(_, _)
SubsetsUpTo(S, k) ==
    IF k = 0 \/ S = {} THEN {{}}
    ELSE LET x == CHOOSE x \in S : TRUE
             rest == SubsetsUpTo(S \ {x}, k)
         IN rest \cup {T \cup {x} : T \in SubsetsUpTo(S \ {x}, k - 1)}

\* the automaton with n states whose transitions are the triples T
MkNFA(alpha, n, I, F, T) ==
    [alphabet |-> alpha,
     initials |-> I,
     finals |-> F,
     transitions |->
        [i \in 1..n |->
            LET keys == {l \in Letters : \E t \in StatesOf(n) : <<i - 1, l, t>> \in T}
            IN [l \in keys |-> {t \in StatesOf(n) : <<i - 1, l, t>> \in T}]]]

\* A is a well-formed NFA over alphabet alpha with at most maxn states and at
\* most MaxTrans transitions
InputNFA(A, alpha, maxn) ==
    \E n \in 0..maxn :
        \E I \in SUBSET StatesOf(n), F \in SUBSET StatesOf(n),
           T \in SubsetsUpTo(StatesOf(n) \X alpha \X StatesOf(n), MaxTrans) :
            A = MkNFA(alpha, n, I, F, T)

\* A and B are well-formed NFAs over alphaA and alphaB with at most MaxStates
\* states each and at most k transitions together
InputPair(A, B, alphaA, alphaB, k) ==
    \E na \in 0..MaxStates, nb \in 0..MaxStates :
        \E Ta \in SubsetsUpTo(StatesOf(na) \X alphaA \X StatesOf(na), k) :
        \E Tb \in SubsetsUpTo(StatesOf(nb) \X alphaB \X StatesOf(nb),
                               k - Cardinality(Ta)) :
        \E Ia \in SUBSET StatesOf(na), Fa \in SUBSET StatesOf(na),
           Ib \in SUBSET StatesOf(nb), Fb \in SUBSET StatesOf(nb) :
            /\ A = MkNFA(alphaA, na, Ia, Fa, Ta)
            /\ B = MkNFA(alphaB, nb, Ib, Fb, Tb)

\* A has the fields of a well-formed DFA over alpha with at most maxn states:
\* one initial state and at most one successor per state and letter
InputDFA(A, alpha, maxn) ==
    \E n \in 1..maxn :
        \E i \in StatesOf(n), F \in SUBSET StatesOf(n),
           f \in [StatesOf(n) \X alpha -> StatesOf(n) \cup {-1}] :
            A = MkNFA(alpha, n, {i}, F,
                      {<<k[1], k[2], f[k]>> : k \in {x \in DOMAIN f : f[x] # -1}})

\* the data-model invariants of an NFA (spec section 3)
WellFormed(A) ==
    LET n == NumStates(A) IN
    /\ A.initials \subseteq StatesOf(n)
    /\ A.finals \subseteq StatesOf(n)
    /\ \A q \in StatesOf(n) :
          /\ DOMAIN Row(A, q) \subseteq A.alphabet
          /\ \A l \in DOMAIN Row(A, q) :
                Row(A, q)[l] # {} /\ Row(A, q)[l] \subseteq StatesOf(n)

NoRange == [start |-> <<"Unbounded", 0>>, end |-> <<"Unbounded", 0>>]

(***************************************************************************)
(* Constructors (nfa.rs:198-262, dfa.rs:46-54).                            *)
(***************************************************************************)
new_empty(alphabet) ==
    [alphabet |-> alphabet, initials |-> {}, finals |-> {}, transitions |-> <<>>]

new_empty_word(alphabet) ==
    [alphabet |-> alphabet, initials |-> {0}, finals |-> {0},
     transitions |-> <<EmptyMap>>]

DFA_new_empty(alphabet) ==
    [alphabet |-> alphabet, initial |-> 0, finals |-> {},
     transitions |-> <<EmptyMap>>]

(***************************************************************************)
(* NFA::run (nfa.rs:375-400).                                              *)
(***************************************************************************)
\* NFA_step following one current state only, as a DFA would
NFA_step_one_state(A, actuals, l) ==
    Get(Row(A, CHOOSE st \in actuals : TRUE), l)

\* one pass of the loop body: the successors of the current states by l
NFA_step(A, actuals, l) == UNION {Get(Row(A, st), l) : st \in actuals}

RECURSIVE NFA_run_from(_, _, _)
NFA_run_from(A, actuals, v) ==
    IF v = <<>> THEN \E x \in actuals : x \in A.finals
    ELSE LET next == NFA_step(A, actuals, Head(v))
         IN IF next = {} THEN FALSE ELSE NFA_run_from(A, next, Tail(v))

NFA_run(A, v) ==
    IF A.initials = {} THEN FALSE ELSE NFA_run_from(A, A.initials, v)

(***************************************************************************)
(* NFA::is_empty (nfa.rs:444-466): a depth-first search from the initial    *)
(* states that stops at the first final target.  The stack is a sequence    *)
(* popped at its end; the order in which targets are pushed follows the    *)
(* hash maps' iteration order and does not change the verdict.             *)
(***************************************************************************)
RECURSIVE SetToSeq(_)
SetToSeq(S) ==
    IF S = {} THEN <<>>
    ELSE LET x == CHOOSE x \in S : \A y \in S : x <= y
         IN <<x>> \o SetToSeq(S \ {x})

\* the targets of all transitions leaving state e
Targets(A, e) == UNION {Row(A, e)[k] : k \in DOMAIN Row(A, e)}

RECURSIVE NFA_is_empty_loop(_, _, _)
NFA_is_empty_loop(A, acc, stack) ==
    IF stack = <<>> THEN TRUE
    ELSE LET e == stack[Len(stack)]
             rest == SubSeq(stack, 1, Len(stack) - 1)
             ts == Targets(A, e)
         IN IF \E t \in ts : t \in A.finals THEN FALSE
            ELSE NFA_is_empty_loop(A, acc \cup ts, rest \o SetToSeq(ts \ acc))

\* is_empty looking at the initial states only
NFA_is_empty_initials_only(A) == A.initials \cap A.finals = {}

NFA_is_empty(A) ==
    IF A.initials \cap A.finals # {} THEN FALSE
    ELSE NFA_is_empty_loop(A, A.initials, SetToSeq(A.initials))

(***************************************************************************)
(* DFA (dfa.rs): run, is_complete, complete, negate, to_nfa.               *)
(***************************************************************************)
RECURSIVE DFA_run_from(_, _, _)
DFA_run_from(D, actual, v) ==
    IF v = <<>> THEN actual \in D.finals
    ELSE IF Head(v) \in DOMAIN D.transitions[actual + 1]
         THEN DFA_run_from(D, D.transitions[actual + 1][Head(v)], Tail(v))
         ELSE FALSE

DFA_run(D, v) == DFA_run_from(D, D.initial, v)

DFA_is_complete(D) ==
    \A i \in 1..Len(D.transitions) : \A v \in D.alphabet :
        v \in DOMAIN D.transitions[i]

DFA_complete(D) ==
    IF DFA_is_complete(D) THEN D
    ELSE LET l == Len(D.transitions)
             pushed == Append(D.transitions, EmptyMap)
         IN [D EXCEPT !.transitions =
                [i \in 1..(l + 1) |->
                    [v \in (DOMAIN pushed[i]) \cup D.alphabet |->
                        IF v \in DOMAIN pushed[i] THEN pushed[i][v] ELSE l]]]

\* DFA_negate without the completion step
DFA_negate_without_complete(D) ==
    [D EXCEPT !.finals = {x \in 0..(Len(D.transitions) - 1) : x \notin D.finals}]

DFA_negate(D) ==
    LET self == DFA_complete(D)
    IN [self EXCEPT !.finals =
            {x \in 0..(Len(self.transitions) - 1) : x \notin self.finals}]

DFA_to_nfa(D) ==
    [alphabet |-> D.alphabet,
     initials |-> {D.initial},
     finals |-> D.finals,
     transitions |->
        [i \in 1..Len(D.transitions) |->
            [k \in DOMAIN D.transitions[i] |-> {D.transitions[i][k]}]]]

(***************************************************************************)
(* Subset construction (nfa.rs:44-94, 302-316).                            *)
(*                                                                         *)
(* A subset is interned under the key fold(zero, |acc, x| acc | shift(x)), *)
(* shift(x) = 1 << x.  `for v in &self.alphabet` visits the alphabet in    *)
(* the hash set's iteration order, which the caller cannot choose: it is   *)
(* the parameter ord, a sequence listing every letter once.                *)
(***************************************************************************)
Shift(x) == 2 ^ x

RECURSIVE BitOr(_, _)
BitOr(x, y) ==
    IF x = 0 THEN y
    ELSE IF y = 0 THEN x
    ELSE (IF x % 2 = 1 \/ y % 2 = 1 THEN 1 ELSE 0) + 2 * BitOr(x \div 2, y \div 2)

RECURSIVE Mask(_)
Mask(S) ==
    IF S = {} THEN 0
    ELSE LET x == CHOOSE x \in S : TRUE
         IN BitOr(Mask(S \ {x}), Shift(x))

\* the hash set's iteration order restricted to the set's elements
IterOrder(alphabet, ord) == SelectSeq(ord, LAMBDA l : l \in alphabet)

Orders ==
    {o \in [1..Cardinality(Letters) -> Letters] :
        \A i, j \in DOMAIN o : i # j => o[i] # o[j]}

\* SubsetLetter marking a new subset final only when all its states are final
SubsetLetter_all_final(A, st, elem_num, iter, v) ==
    LET it == UNION {Get(Row(A, state), v) : state \in iter} IN
    IF it = {} THEN st
    ELSE LET other == Mask(it)
             l == Len(st.dfa.transitions)
             st1 == IF other \in DOMAIN st.map THEN st
                    ELSE [map |-> Put(st.map, other, l),
                          stack |-> Append(st.stack, <<other, it>>),
                          dfa |-> [st.dfa EXCEPT
                                     !.finals = IF \A x \in it : x \in A.finals
                                                THEN @ \cup {l} ELSE @,
                                     !.transitions = Append(@, EmptyMap)]]
             val == st1.map[other]
         IN [st1 EXCEPT !.dfa.transitions[elem_num + 1] = Put(@, v, val)]

\* the body of the loop over the alphabet, for the popped pair and letter v;
\* st holds the local variables map, stack and dfa
SubsetLetter(A, st, elem_num, iter, v) ==
    LET it == UNION {Get(Row(A, state), v) : state \in iter} IN
    IF it = {} THEN st
    ELSE LET other == Mask(it)
             l == Len(st.dfa.transitions)
             st1 == IF other \in DOMAIN st.map THEN st
                    ELSE [map |-> Put(st.map, other, l),
                          stack |-> Append(st.stack, <<other, it>>),
                          dfa |-> [st.dfa EXCEPT
                                     !.finals = IF \E x \in it : x \in A.finals
                                                THEN @ \cup {l} ELSE @,
                                     !.transitions = Append(@, EmptyMap)]]
             val == st1.map[other]
         IN [st1 EXCEPT !.dfa.transitions[elem_num + 1] = Put(@, v, val)]

RECURSIVE SubsetLetters(_, _, _, _, _)
SubsetLetters(A, st, elem_num, iter, letters) ==
    IF letters = <<>> THEN st
    ELSE SubsetLetters(A, SubsetLetter(A, st, elem_num, iter, Head(letters)),
                       elem_num, iter, Tail(letters))

RECURSIVE SubsetLoop(_, _, _)
SubsetLoop(A, st, ord) ==
    IF st.stack = <<>> THEN st.dfa
    ELSE LET elem == Head(st.stack)[1]
             iter == Head(st.stack)[2]
             popped == [st EXCEPT !.stack = Tail(@)]
         IN SubsetLoop(A, SubsetLetters(A, popped, popped.map[elem], iter,
                                        IterOrder(A.alphabet, ord)), ord)

\* small_to_dfa without the test that makes state 0 final
small_to_dfa_initial_never_final(A, ord) ==
    LET i == Mask(A.initials)
        dfa == DFA_new_empty(A.alphabet)
    IN SubsetLoop(A, [map |-> Put(EmptyMap, i, 0),
                      stack |-> <<<<i, A.initials>>>>,
                      dfa |-> dfa], ord)

small_to_dfa(A, ord) ==
    LET i == Mask(A.initials)
        dfa0 == DFA_new_empty(A.alphabet)
        dfa == IF \E x \in A.initials : x \in A.finals
               THEN [dfa0 EXCEPT !.finals = @ \cup {0}] ELSE dfa0
    IN SubsetLoop(A, [map |-> Put(EmptyMap, i, 0),
                      stack |-> <<<<i, A.initials>>>>,
                      dfa |-> dfa], ord)

\* the operands of the model have fewer than 32 states: the u32 encoding
NFA_to_dfa(A, ord) ==
    IF NFA_is_empty(A) THEN DFA_new_empty(A.alphabet)
    ELSE small_to_dfa(A, ord)

\* NFA::negate (nfa.rs:492-494)
NFA_negate(A, ord) == DFA_to_nfa(DFA_negate(NFA_to_dfa(A, ord)))

(***************************************************************************)
(* Buildable for NFA (nfa.rs:591-733) and its helpers (utils.rs:12-46).    *)
(***************************************************************************)
append_hashset(x, y) == x \cup y

shift_hashset(x, l) == {e + l : e \in x}

append_shift_hashset(x, y, l) == x \cup {e + l : e \in y}

shift_transitions(tr, l) ==
    [i \in 1..Len(tr) |-> [k \in DOMAIN tr[i] |-> {t + l : t \in tr[i][k]}]]

shift_fnda(A, l) ==
    [alphabet |-> A.alphabet,
     initials |-> shift_hashset(A.initials, l),
     finals |-> shift_hashset(A.finals, l),
     transitions |-> shift_transitions(A.transitions, l)]

append_shift_transitions(x, y) == x \o shift_transitions(y, Len(x))

\* unite leaving other's final states unshifted
unite_finals_not_shifted(self, other) ==
    LET l == Len(self.transitions)
    IN [alphabet |-> append_hashset(self.alphabet, other.alphabet),
        initials |-> append_shift_hashset(self.initials, other.initials, l),
        finals |-> append_hashset(self.finals, other.finals),
        transitions |-> append_shift_transitions(self.transitions, other.transitions)]

unite(self, other) ==
    LET l == Len(self.transitions)
    IN [alphabet |-> append_hashset(self.alphabet, other.alphabet),
        initials |-> append_shift_hashset(self.initials, other.initials, l),
        finals |-> append_shift_hashset(self.finals, other.finals, l),
        transitions |-> append_shift_transitions(self.transitions, other.transitions)]

\* the transitions leaving the states of `from`, merged by key
OutgoingOf(tr, from) ==
    LET keys == UNION {DOMAIN tr[i + 1] : i \in from}
    IN [k \in keys |-> UNION {Get(tr[i + 1], k) : i \in from}]

\* the map m with the successors of `extra` added under each of extra's keys
MergeInto(m, extra) ==
    [k \in (DOMAIN m) \cup (DOMAIN extra) |-> Get(m, k) \cup Get(extra, k)]

\* concatenate always replacing self's finals by other's
concatenate_finals_replaced(self, other0) ==
    LET l == Len(self.transitions)
        other == shift_fnda(other0, l)
        added == OutgoingOf(other.transitions, {e - l : e \in other.initials})
        linked == [i \in 1..l |->
                      IF (i - 1) \in self.finals
                      THEN MergeInto(self.transitions[i], added)
                      ELSE self.transitions[i]]
    IN [alphabet |-> append_hashset(self.alphabet, other.alphabet),
        initials |-> self.initials,
        finals |-> other.finals,
        transitions |-> linked \o other.transitions]

concatenate(self, other0) ==
    LET l == Len(self.transitions)
        other == shift_fnda(other0, l)
        \* the transitions of other's initial states (rows e - l of the
        \* shifted vector), which every final state of self receives
        added == OutgoingOf(other.transitions, {e - l : e \in other.initials})
        linked == [i \in 1..l |->
                      IF (i - 1) \in self.finals
                      THEN MergeInto(self.transitions[i], added)
                      ELSE self.transitions[i]]
    IN [alphabet |-> append_hashset(self.alphabet, other.alphabet),
        initials |-> self.initials,
        finals |-> IF other.finals \cap other.initials = {}
                   THEN other.finals
                   ELSE append_hashset(self.finals, other.finals),
        transitions |-> linked \o other.transitions]

\* kleene without the transitions added to the final states
kleene_without_loops(self) ==
    LET l == Len(self.transitions)
        map == OutgoingOf(self.transitions, self.initials)
    IN [alphabet |-> self.alphabet,
        initials |-> {l},
        finals |-> self.finals \cup {l},
        transitions |-> Append(self.transitions, map)]

kleene(self) ==
    LET l == Len(self.transitions)
        map == OutgoingOf(self.transitions, self.initials)
        looped == [i \in 1..l |->
                      IF (i - 1) \in self.finals
                      THEN MergeInto(self.transitions[i], map)
                      ELSE self.transitions[i]]
    IN [alphabet |-> self.alphabet,
        initials |-> {l},
        finals |-> self.finals \cup {l},
        transitions |-> Append(looped, map)]

\* (0..u).fold(new_empty_word(alphabet), |acc, _| acc.concatenate(self))
RECURSIVE FoldConcat(_, _)
FoldConcat(self, u) ==
    IF u = 0 THEN new_empty_word(self.alphabet)
    ELSE concatenate(FoldConcat(self, u - 1), self)

\* at_most without the state that makes self accept the empty word
at_most_without_empty_word(self0, u) == FoldConcat(self0, u)

at_most(self0, u) ==
    LET l == Len(self0.transitions)
        self == IF \E x \in self0.initials : x \in self0.finals THEN self0
                ELSE [self0 EXCEPT !.initials = @ \cup {l},
                                   !.finals = @ \cup {l},
                                   !.transitions = Append(@, EmptyMap)]
    IN FoldConcat(self, u)

at_least(self, u) == concatenate(FoldConcat(self, u), kleene(self))

(***************************************************************************)
(* NFA::repeat (nfa.rs:704-732).  A range bound is <<"Included", n>>,       *)
(* <<"Excluded", n>> or <<"Unbounded", 0>>.  The bounds are usize; TLC's    *)
(* integers cannot hold 2^64 - 1, so usize::MAX is kept as UsizeMax, its    *)
(* two's complement reading, and compared as the unsigned value it is.      *)
(* `a - 1` at a = 0 overflows: a build with overflow checks panics there,   *)
(* a build without them wraps to usize::MAX.  The parameter checks says     *)
(* which build runs.  A call returns [status |-> "ok", nfa |-> result],     *)
(* [status |-> "panic"], or [status |-> "exhausted"] when it folds          *)
(* usize::MAX - start concatenations, each adding a state.                  *)
(***************************************************************************)
UsizeMax == -1

UsizeLess(x, y) ==
    IF x = UsizeMax THEN FALSE ELSE IF y = UsizeMax THEN TRUE ELSE x < y

Ok(nfa) == [status |-> "ok", nfa |-> nfa]

RangeStart(r) ==
    CASE r.start[1] = "Included" -> r.start[2]
      [] r.start[1] = "Excluded" -> r.start[2] + 1
      [] OTHER -> 0

\* Some(a), Some(a - 1) or None; <<"Panic">> when the subtraction is checked
RangeEnd(r, checks) ==
    CASE r.end[1] = "Included" -> <<"Some", r.end[2]>>
      [] r.end[1] = "Excluded" ->
            IF r.end[2] > 0 THEN <<"Some", r.end[2] - 1>>
            ELSE IF checks THEN <<"Panic", 0>> ELSE <<"Some", UsizeMax>>
      [] OTHER -> <<"None", 0>>

repeat(self, r, checks) ==
    LET start == RangeStart(r)
        end == RangeEnd(r, checks)
    IN IF end[1] = "Panic" THEN [status |-> "panic", nfa |-> new_empty({})]
       ELSE IF end[1] = "Some" /\ UsizeLess(end[2], start)
            THEN Ok(new_empty(self.alphabet))
       ELSE IF end[1] = "Some"
            THEN IF end[2] = UsizeMax
                 THEN [status |-> "exhausted", nfa |-> new_empty({})]
                 ELSE Ok(concatenate(FoldConcat(self, start),
                                     at_most(self, end[2] - start)))
       ELSE Ok(at_least(self, start))

\* intersect uniting self's complement with other itself
intersect_other_not_negated(self, other, ord) ==
    NFA_negate(unite(NFA_negate(self, ord), other), ord)

\* NFA::intersect (nfa.rs:34-37)
intersect(self, other, ord) ==
    NFA_negate(unite(NFA_negate(self, ord), NFA_negate(other, ord)), ord)

\* NFA::contains (nfa.rs:39-42)
contains(self, other, ord) ==
    NFA_is_empty(intersect(NFA_negate(self, ord), other, ord))

(***************************************************************************)
(* Regular expressions (regex.rs).  A value of enum Operations is a record *)
(* with the same fields for every variant, the fields a variant does not   *)
(* have holding a default:                                                 *)
(*   Union(BTreeSet)     tag "Union",  set  the children                   *)
(*   Concat(VecDeque)    tag "Concat", seq  the children                   *)
(*   Repeat(Box, usize, Option<usize>)                                     *)
(*                       tag "Repeat", seq  <<operand>>, min, max          *)
(*   Letter(V)           tag "Letter", letter                              *)
(*   Epsilon, Empty, Dot tag only                                          *)
(* Option<usize>: Some(n) is n, None is NoMax.                             *)
(***************************************************************************)
NoMax == -1

Op(tag, set, seq, min, max, letter) ==
    [tag |-> tag, set |-> set, seq |-> seq, min |-> min, max |-> max,
     letter |-> letter]

Union(t) == Op("Union", t, <<>>, 0, 0, "")

Concat(v) == Op("Concat", {}, v, 0, 0, "")

Repeat(o, min, max) == Op("Repeat", {}, <<o>>, min, max, "")

Letter(l) == Op("Letter", {}, <<>>, 0, 0, l)

Epsilon == Op("Epsilon", {}, <<>>, 0, 0, "")

Empty == Op("Empty", {}, <<>>, 0, 0, "")

Dot == Op("Dot", {}, <<>>, 0, 0, "")

\* #[derive(PartialOrd, Ord)]: variants compare by their position in the enum,
\* then by their fields in order; None < Some(_) is NoMax < n
VariantRank(o) ==
    CASE o.tag = "Union" -> 0
      [] o.tag = "Concat" -> 1
      [] o.tag = "Repeat" -> 2
      [] o.tag = "Letter" -> 3
      [] o.tag = "Epsilon" -> 4
      [] o.tag = "Empty" -> 5
      [] OTHER -> 6

\* Ord of the letters (char)
LetterRank(l) == IF l = "x" THEN 0 ELSE 1

RECURSIVE OpLess(_, _), SeqLess(_, _), SortedSeq(_)

\* lexicographic order of VecDeque and of BTreeSet (iterated in order)
SeqLess(p, q) ==
    IF q = <<>> THEN FALSE
    ELSE IF p = <<>> THEN TRUE
    ELSE IF Head(p) # Head(q) THEN OpLess(Head(p), Head(q))
    ELSE SeqLess(Tail(p), Tail(q))

\* the elements of a BTreeSet in iteration order
SortedSeq(t) ==
    IF t = {} THEN <<>>
    ELSE LET m == CHOOSE x \in t : \A y \in t : x = y \/ OpLess(x, y)
         IN <<m>> \o SortedSeq(t \ {m})

OpLess(x, y) ==
    IF VariantRank(x) # VariantRank(y) THEN VariantRank(x) < VariantRank(y)
    ELSE CASE x.tag = "Union" -> SeqLess(SortedSeq(x.set), SortedSeq(y.set))
           [] x.tag = "Concat" -> SeqLess(x.seq, y.seq)
           [] x.tag = "Repeat" ->
                 IF x.seq[1] # y.seq[1] THEN OpLess(x.seq[1], y.seq[1])
                 ELSE IF x.min # y.min THEN x.min < y.min
                 ELSE x.max < y.max
           [] x.tag = "Letter" -> LetterRank(x.letter) < LetterRank(y.letter)
           [] OTHER -> FALSE

\* set.iter().next().unwrap()
First(t) == SortedSeq(t)[1]

\* the concatenation of the sequences of a sequence
RECURSIVE Flatten(_)
Flatten(qs) == IF qs = <<>> THEN <<>> ELSE Head(qs) \o Flatten(Tail(qs))

IsRepeatFromZero(x) == x.tag = "Repeat" /\ x.min = 0

\* Concat(t) => t.front(), x => x
FrontOf(x) == IF x.tag = "Concat" THEN x.seq[1] ELSE x

RECURSIVE simplify(_), simplify_union(_), simplify_concat(_),
          simplify_repeat(_, _, _)

simplify_union(t) ==
    IF \A x \in t : x = Empty THEN Empty
    ELSE
    LET set0 == UNION {LET e == simplify(x)
                       IN IF e = Empty THEN {}
                          ELSE IF e.tag = "Union" THEN e.set
                          ELSE {e} : x \in t}
    IN IF set0 = {} THEN Epsilon
       ELSE IF Cardinality(set0) = 1 THEN CHOOSE x \in set0 : TRUE
       ELSE IF Epsilon \in set0 /\ Cardinality(set0) = 2
            THEN simplify(Repeat(CHOOSE x \in set0 : x # Epsilon, 0, 1))
       ELSE
       LET set == IF \E x \in set0 : IsRepeatFromZero(x)
                  THEN set0 \ {Epsilon} ELSE set0
           facto == FrontOf(First(set))
       IN IF \A x \in set : facto = FrontOf(x)
          THEN LET new_set == {IF e.tag = "Concat" THEN Concat(Tail(e.seq))
                               ELSE Epsilon : e \in set}
               IN simplify(Concat(<<facto, Union(new_set)>>))
          ELSE Union(set)

simplify_concat(v) ==
    IF \A i \in 1..Len(v) : v[i] = Epsilon THEN Epsilon
    ELSE
    LET vec == Flatten([i \in 1..Len(v) |->
                           LET e == simplify(v[i])
                           IN IF e = Epsilon THEN <<>>
                              ELSE IF e.tag = "Concat" THEN e.seq
                              ELSE <<e>>])
    IN IF vec = <<>> THEN Empty
       ELSE IF Len(vec) = 1 THEN vec[1]
       ELSE Concat(vec)

\* the arms of the match, first matching arm first
simplify_repeat(o, min, max) ==
    LET x == simplify(o) IN
    IF (min = 0 /\ max = 0) \/ x = Epsilon THEN Epsilon
    ELSE IF max # NoMax /\ max < min THEN Epsilon
    ELSE IF min = 1 /\ max = 1 THEN x
    ELSE IF min = 0 /\ x = Empty THEN Union({Empty, Epsilon})
    ELSE IF x = Empty THEN Empty
    ELSE IF x.tag = "Repeat" /\ x.min = 0 /\ x.max = NoMax
         THEN simplify(Repeat(x.seq[1], 0, NoMax))
    ELSE IF min = 0 /\ max = NoMax /\ x.tag = "Repeat" /\ x.min \in 0..1
         THEN simplify(Repeat(x.seq[1], 0, NoMax))
    ELSE IF min = 0 /\ max = 1 /\ x.tag = "Repeat" /\ x.min = 0 /\ x.max = 1
         THEN simplify(Repeat(x.seq[1], 0, 1))
    ELSE IF min = 0 /\ max = 1 /\ x.tag = "Union"
         THEN LET u0 == x.set \ {Epsilon}
                  u == IF \A e \in u0 : ~IsRepeatFromZero(e)
                       THEN u0 \cup {Epsilon} ELSE u0
              IN simplify(Union(u))
    ELSE IF min = 0 /\ x.tag = "Union"
         THEN LET u == x.set \ {Epsilon}
              IN IF u = {} THEN Epsilon
                 ELSE IF Cardinality(u) = 1
                      THEN simplify(Repeat(CHOOSE e \in u : TRUE, 0, max))
                 ELSE Repeat(Union(u), 0, max)
    ELSE IF min = 1 /\ max = NoMax /\ IsRepeatFromZero(x)
         THEN Repeat(x.seq[1], 0, NoMax)
    ELSE Repeat(x, min, max)

simplify(o) ==
    CASE o.tag = "Union" -> simplify_union(o.set)
      [] o.tag = "Concat" -> simplify_concat(o.seq)
      [] o.tag = "Repeat" -> simplify_repeat(o.seq[1], o.min, o.max)
      [] OTHER -> o

\* new_length without the row of its last state
new_length_last_state_missing(alphabet, len) ==
    [alphabet |-> alphabet, initials |-> {0}, finals |-> {len},
     transitions |-> [i \in 1..len |-> [v \in alphabet |-> {i}]]]

\* NFA::new_length (nfa.rs:219-235)
new_length(alphabet, len) ==
    [alphabet |-> alphabet, initials |-> {0}, finals |-> {len},
     transitions |->
        [i \in 1..(len + 1) |->
            IF i <= len THEN [v \in alphabet |-> {i}] ELSE EmptyMap]]

\* NFA::new_matching (nfa.rs:238-252)
new_matching(alphabet, w) ==
    [alphabet |-> alphabet, initials |-> {0}, finals |-> {Len(w)},
     transitions |->
        [i \in 1..(Len(w) + 1) |->
            IF i <= Len(w) THEN Put(EmptyMap, w[i], {i}) ELSE EmptyMap]]

\* the range min..=max or min..
RangeOf(min, max) ==
    [start |-> <<"Included", min>>,
     end |-> IF max = NoMax THEN <<"Unbounded", 0>> ELSE <<"Included", max>>]

RECURSIVE Operations_to_nfa(_, _), FoldUnite(_, _, _), FoldConcatenate(_, _, _)

\* v.iter().fold(acc, |acc, x| acc.unite(x.to_nfa(alphabet)))
FoldUnite(acc, v, alphabet) ==
    IF v = <<>> THEN acc
    ELSE FoldUnite(unite(acc, Operations_to_nfa(Head(v), alphabet)),
                   Tail(v), alphabet)

\* v.iter().fold(acc, |acc, x| acc.concatenate(x.to_nfa(alphabet)))
FoldConcatenate(acc, v, alphabet) ==
    IF v = <<>> THEN acc
    ELSE FoldConcatenate(concatenate(acc, Operations_to_nfa(Head(v), alphabet)),
                         Tail(v), alphabet)

\* Operations::to_nfa (regex.rs:262-284); the ranges it passes to repeat have
\* included bounds, which repeat handles without subtraction
Operations_to_nfa(o, alphabet) ==
    CASE o.tag = "Union" ->
            FoldUnite(new_empty(alphabet), SortedSeq(o.set), alphabet)
      [] o.tag = "Concat" ->
            FoldConcatenate(new_length(alphabet, 0), o.seq, alphabet)
      [] o.tag = "Repeat" ->
            repeat(Operations_to_nfa(o.seq[1], alphabet),
                   RangeOf(o.min, o.max), TRUE).nfa
      [] o.tag = "Letter" -> new_matching(alphabet, <<o.letter>>)
      [] o.tag = "Epsilon" -> new_length(alphabet, 0)
      [] o.tag = "Empty" -> new_empty(alphabet)
      [] OTHER -> new_length(alphabet, 1)

\* Regex::simplify and ToNfa for Regex: a Regex is [alphabet, regex]
Regex_simplify(r) == [alphabet |-> r.alphabet, regex |-> simplify(r.regex)]

Regex_to_nfa(r) == Operations_to_nfa(r.regex, r.alphabet)

\* Add for Operations (regex.rs:501-525)
Operations_add(x, y) ==
    IF x.tag = "Union" /\ y.tag = "Union" THEN Union(x.set \cup y.set)
    ELSE IF x = Empty THEN y
    ELSE IF y = Empty THEN x
    ELSE IF x.tag = "Union" THEN Union(x.set \cup {y})
    ELSE IF y.tag = "Union" THEN Union(y.set \cup {x})
    ELSE Union({x, y})

\* Mul for Operations (regex.rs:527-551)
Operations_mul(x, y) ==
    IF x.tag = "Concat" /\ y.tag = "Concat" THEN Concat(x.seq \o y.seq)
    ELSE IF x = Epsilon THEN y
    ELSE IF y = Epsilon THEN x
    ELSE IF x = Empty THEN Empty
    ELSE IF y = Empty THEN Empty
    ELSE IF x.tag = "Concat" THEN Concat(Append(x.seq, y))
    ELSE IF y.tag = "Concat" THEN Concat(<<x>> \o y.seq)
    ELSE Concat(<<x, y>>)

(***************************************************************************)
(* ToRegex for NFA (nfa.rs:324-372).  A matrix is a function from pairs of *)
(* states to Operations.                                                   *)
(***************************************************************************)
\* acc += Letter(k) for each k of the sequence ks
RECURSIVE AddLetters(_, _)
AddLetters(acc, ks) ==
    IF ks = <<>> THEN acc
    ELSE AddLetters(Operations_add(acc, Letter(Head(ks))), Tail(ks))

\* the first matrix without Epsilon on its diagonal
InitialMatrix_without_epsilon(A, ord) ==
    [p \in StatesOf(NumStates(A)) \X StatesOf(NumStates(A)) |->
        AddLetters(Empty,
                   SelectSeq(IterOrder(DOMAIN Row(A, p[1]), ord),
                             LAMBDA k : p[2] \in Row(A, p[1])[k]))]

\* mat1 after the first loop: Epsilon on the diagonal, and at [i][j] the
\* letters of the transitions from i to j, added in the map's iteration order
InitialMatrix(A, ord) ==
    [p \in StatesOf(NumStates(A)) \X StatesOf(NumStates(A)) |->
        AddLetters(IF p[1] = p[2] THEN Epsilon ELSE Empty,
                   SelectSeq(IterOrder(DOMAIN Row(A, p[1]), ord),
                             LAMBDA k : p[2] \in Row(A, p[1])[k]))]

\* one pass `for i in 0..n { for j in 0..n { .. } }` for the state k
ClosureStep(mat1, k) ==
    [p \in DOMAIN mat1 |->
        Operations_add(
            mat1[p],
            Operations_mul(
                Operations_mul(mat1[<<p[1], k>>], Repeat(mat1[<<k, k>>], 0, NoMax)),
                mat1[<<k, p[2]>>]))]

\* `for k in 0..n`, from state k on
RECURSIVE ClosureLoop(_, _, _)
ClosureLoop(mat1, k, n) ==
    IF k >= n THEN mat1 ELSE ClosureLoop(ClosureStep(mat1, k), k + 1, n)

\* res += mat1[st][en] for each pair of the sequence
RECURSIVE AddEntries(_, _, _)
AddEntries(res, mat1, pairs) ==
    IF pairs = <<>> THEN res
    ELSE AddEntries(Operations_add(res, mat1[Head(pairs)]), mat1, Tail(pairs))

\* the pairs (st, en) of the two nested loops over initials and finals; the
\* sets are visited in increasing order here, Add giving the same sum in
\* every order
InitialFinalPairs(A) ==
    LET is == SetToSeq(A.initials)
        fs == SetToSeq(A.finals)
    IN [x \in 1..(Len(is) * Len(fs)) |->
           <<is[((x - 1) \div Len(fs)) + 1], fs[((x - 1) % Len(fs)) + 1]>>]

NFA_to_regex(A, ord) ==
    LET n == NumStates(A) IN
    IF n = 0 THEN [alphabet |-> A.alphabet, regex |-> Empty]
    ELSE LET mat1 == ClosureLoop(InitialMatrix(A, ord), 0, n)
         IN [alphabet |-> A.alphabet,
             regex |-> AddEntries(Empty, mat1, InitialFinalPairs(A))]

(***************************************************************************)
(* Automata for NFA: predicates and normalising transformations            *)
(* (nfa.rs:402-588).                                                       *)
(***************************************************************************)
new_full(alphabet) ==
    [alphabet |-> alphabet, initials |-> {0}, finals |-> {0},
     transitions |-> <<[v \in alphabet |-> {0}]>>]

NFA_is_complete(A) ==
    IF A.initials = {} THEN FALSE
    ELSE \A q \in StatesOf(NumStates(A)) : \A v \in A.alphabet :
            Get(Row(A, q), v) # {}

\* the loop shared by is_reachable and make_reachable: the set acc when the
\* stack is exhausted
RECURSIVE NFA_reach_loop(_, _, _)
NFA_reach_loop(A, acc, stack) ==
    IF stack = <<>> THEN acc
    ELSE LET e == stack[Len(stack)]
             rest == SubSeq(stack, 1, Len(stack) - 1)
             ts == Targets(A, e)
         IN NFA_reach_loop(A, acc \cup ts, rest \o SetToSeq(ts \ acc))

NFA_is_reachable(A) ==
    Cardinality(NFA_reach_loop(A, A.initials, SetToSeq(A.initials)))
        = NumStates(A)

\* reverse with the initial and final states left in place
NFA_reverse_not_swapped(A) ==
    [alphabet |-> A.alphabet,
     initials |-> A.initials,
     finals |-> A.finals,
     transitions |->
        [e \in 1..NumStates(A) |->
            LET keys == {k \in UNION {DOMAIN A.transitions[i] : i \in 1..NumStates(A)} :
                            \E i \in 1..NumStates(A) :
                                (e - 1) \in Get(A.transitions[i], k)}
            IN [k \in keys |->
                   {i - 1 : i \in {j \in 1..NumStates(A) :
                                      (e - 1) \in Get(A.transitions[j], k)}}]]]

NFA_reverse(A) ==
    [alphabet |-> A.alphabet,
     initials |-> A.finals,
     finals |-> A.initials,
     transitions |->
        [e \in 1..NumStates(A) |->
            LET keys == {k \in UNION {DOMAIN A.transitions[i] : i \in 1..NumStates(A)} :
                            \E i \in 1..NumStates(A) :
                                (e - 1) \in Get(A.transitions[i], k)}
            IN [k \in keys |->
                   {i - 1 : i \in {j \in 1..NumStates(A) :
                                      (e - 1) \in Get(A.transitions[j], k)}}]]]

NFA_is_coreachable(A) == NFA_is_reachable(NFA_reverse(A))

NFA_is_trimmed(A) == NFA_is_reachable(A) /\ NFA_is_coreachable(A)

\* while let Some(e) = stack.pop() of is_full: false at the first target that
\* is not final
RECURSIVE NFA_is_full_loop(_, _, _)
NFA_is_full_loop(A, acc, stack) ==
    IF stack = <<>> THEN TRUE
    ELSE LET e == stack[Len(stack)]
             rest == SubSeq(stack, 1, Len(stack) - 1)
             ts == Targets(A, e)
         IN IF \E t \in ts : t \notin A.finals THEN FALSE
            ELSE NFA_is_full_loop(A, acc \cup ts, rest \o SetToSeq(ts \ acc))

NFA_is_full(A) ==
    IF A.initials \cap A.finals = {} THEN FALSE
    ELSE NFA_is_full_loop(A, A.initials, SetToSeq(A.initials))

\* complete without the sink's own transitions
NFA_complete_sink_left_bare(A) ==
    IF NFA_is_complete(A) THEN A
    ELSE LET l == NumStates(A)
         IN [alphabet |-> A.alphabet,
             initials |-> IF A.initials = {} THEN {l} ELSE A.initials,
             finals |-> A.finals,
             transitions |->
                Append([i \in 1..l |->
                           [v \in (DOMAIN A.transitions[i]) \cup A.alphabet |->
                               IF Get(A.transitions[i], v) = {} THEN {l}
                               ELSE A.transitions[i][v]]],
                       EmptyMap)]

NFA_complete(A) ==
    IF NFA_is_complete(A) THEN A
    ELSE LET l == NumStates(A)
             pushed == Append(A.transitions, EmptyMap)
         IN [alphabet |-> A.alphabet,
             initials |-> IF A.initials = {} THEN {l} ELSE A.initials,
             finals |-> A.finals,
             transitions |->
                [i \in 1..(l + 1) |->
                    [v \in (DOMAIN pushed[i]) \cup A.alphabet |->
                        IF v \in A.alphabet /\ Get(pushed[i], v) = {}
                        THEN {l} ELSE pushed[i][v]]]]

\* Vec::swap of the rows of states i and j
SwapRows(tr, i, j) ==
    [k \in 1..Len(tr) |->
        IF k = i + 1 THEN tr[j + 1] ELSE IF k = j + 1 THEN tr[i + 1] ELSE tr[k]]

\* the renumbering loop `for i in 0..l` of make_reachable, from state i on:
\* st holds map, ind and the transitions vector
RECURSIVE RenumberLoop(_, _, _, _)
RenumberLoop(st, acc, i, l) ==
    IF i >= l THEN st
    ELSE IF i \in acc
         THEN RenumberLoop([map |-> Put(st.map, i, st.ind),
                            ind |-> st.ind + 1,
                            transitions |-> SwapRows(st.transitions, i, st.ind)],
                           acc, i + 1, l)
         ELSE RenumberLoop(st, acc, i + 1, l)

\* make_reachable keeping the old indices of the final states
NFA_make_reachable_finals_not_remapped(A) ==
    LET acc == NFA_reach_loop(A, A.initials, SetToSeq(A.initials))
        st == RenumberLoop([map |-> EmptyMap, ind |-> 0,
                            transitions |-> A.transitions],
                           acc, 0, NumStates(A))
        kept == SubSeq(st.transitions, 1, st.ind)
    IN [alphabet |-> A.alphabet,
        initials |-> {st.map[x] : x \in A.initials},
        finals |-> {x \in A.finals : x \in acc},
        transitions |->
            [i \in 1..Len(kept) |->
                [k \in DOMAIN kept[i] |-> {st.map[t] : t \in kept[i][k]}]]]

NFA_make_reachable(A) ==
    LET acc == NFA_reach_loop(A, A.initials, SetToSeq(A.initials))
        st == RenumberLoop([map |-> EmptyMap, ind |-> 0,
                            transitions |-> A.transitions],
                           acc, 0, NumStates(A))
        kept == SubSeq(st.transitions, 1, st.ind)
    IN [alphabet |-> A.alphabet,
        initials |-> {st.map[x] : x \in A.initials},
        finals |-> {st.map[x] : x \in {y \in A.finals : y \in acc}},
        transitions |->
            [i \in 1..Len(kept) |->
                [k \in DOMAIN kept[i] |-> {st.map[t] : t \in kept[i][k]}]]]

NFA_make_coreachable(A) == NFA_reverse(NFA_make_reachable(NFA_reverse(A)))

NFA_trim(A) == NFA_make_coreachable(NFA_make_reachable(A))

(***************************************************************************)
(* Automata for DFA (dfa.rs:31-34, 119-190): every operation but            *)
(* is_reachable goes through the NFA and back by to_dfa.                    *)
(***************************************************************************)
RECURSIVE DFA_reach_loop(_, _, _)
DFA_reach_loop(D, acc, stack) ==
    IF stack = <<>> THEN acc
    ELSE LET e == stack[Len(stack)]
             rest == SubSeq(stack, 1, Len(stack) - 1)
             ts == {D.transitions[e + 1][k] : k \in DOMAIN D.transitions[e + 1]}
         IN DFA_reach_loop(D, acc \cup ts, rest \o SetToSeq(ts \ acc))

DFA_is_reachable(D) ==
    Cardinality(DFA_reach_loop(D, {D.initial}, <<D.initial>>))
        = Len(D.transitions)

DFA_is_coreachable(D) == NFA_is_coreachable(DFA_to_nfa(D))

DFA_is_trimmed(D) == NFA_is_trimmed(DFA_to_nfa(D))

DFA_is_empty(D) == NFA_is_empty(DFA_to_nfa(D))

DFA_is_full(D) == NFA_is_full(DFA_to_nfa(D))

DFA_make_reachable(D, ord) == NFA_to_dfa(NFA_make_reachable(DFA_to_nfa(D)), ord)

DFA_make_coreachable(D, ord) ==
    NFA_to_dfa(NFA_make_coreachable(DFA_to_nfa(D)), ord)

DFA_trim(D, ord) == NFA_to_dfa(NFA_trim(DFA_to_nfa(D)), ord)

\* reverse without the determinisation: the reversed NFA read as a DFA, one
\* initial state and one successor per letter being kept
DFA_reverse_not_determinised(D, ord) ==
    LET R == NFA_reverse(DFA_to_nfa(D))
    IN [alphabet |-> R.alphabet,
        initial |-> IF R.initials = {} THEN 0
                    ELSE CHOOSE q \in R.initials : \A x \in R.initials : q <= x,
        finals |-> R.finals,
        transitions |->
            [i \in 1..Len(R.transitions) |->
                [k \in DOMAIN R.transitions[i] |->
                    CHOOSE t \in R.transitions[i][k] :
                        \A x \in R.transitions[i][k] : t <= x]]]

DFA_reverse(D, ord) == NFA_to_dfa(NFA_reverse(DFA_to_nfa(D)), ord)

\* minimize stopping after the first reversal and determinisation
DFA_minimize_one_pass(D, ord, ord2) == DFA_reverse(D, ord)

\* self.reverse().to_dfa().reverse().to_dfa(), DFA::to_dfa being a clone; ord
\* and ord2 are the iteration orders of the two determinisations
DFA_minimize(D, ord, ord2) == DFA_reverse(DFA_reverse(D, ord), ord2)

\* the normalising transformation of trait Automata named t, for an NFA
NFA_normalise(t, A) ==
    CASE t = "complete" -> NFA_complete(A)
      [] t = "make_reachable" -> NFA_make_reachable(A)
      [] t = "make_coreachable" -> NFA_make_coreachable(A)
      [] OTHER -> NFA_trim(A)

\* the normalising transformation of trait Automata named t, for a DFA
DFA_normalise(t, D, ord) ==
    CASE t = "dfa_complete" -> DFA_complete(D)
      [] t = "dfa_make_reachable" -> DFA_make_reachable(D, ord)
      [] t = "dfa_make_coreachable" -> DFA_make_coreachable(D, ord)
      [] OTHER -> DFA_trim(D, ord)

(***************************************************************************)
(* Reference semantics: accepting paths and languages.                     *)
(***************************************************************************)
\* there is a path q -w[1]-> q1 ... -w[k]-> qk in the transitions with qk final
RECURSIVE PathFrom(_, _, _)
PathFrom(A, q, w) ==
    IF w = <<>> THEN q \in A.finals
    ELSE \E q1 \in Get(Row(A, q), Head(w)) : PathFrom(A, q1, Tail(w))

\* there is a path q0 -w[1]-> q1 ... -w[k]-> qk with q0 initial, qk final
AcceptingPath(A, w) == \E q0 \in A.initials : PathFrom(A, q0, w)

Prefix(w, i) == SubSeq(w, 1, i)

Suffix(w, i) == SubSeq(w, i + 1, Len(w))

\* w = u.v with u accepted by A and v accepted by B
InConcat(A, B, w) ==
    \E i \in 0..Len(w) : NFA_run(A, Prefix(w, i)) /\ NFA_run(B, Suffix(w, i))

\* w is the concatenation of exactly k words accepted by A
RECURSIVE InPower(_, _, _)
InPower(A, w, k) ==
    IF k = 0 THEN w = <<>>
    ELSE \E i \in 0..Len(w) :
            NFA_run(A, Prefix(w, i)) /\ InPower(A, Suffix(w, i), k - 1)

\* w is the concatenation of finitely many words accepted by A
RECURSIVE InStar(_, _)
InStar(A, w) ==
    \/ w = <<>>
    \/ \E i \in 1..Len(w) : NFA_run(A, Prefix(w, i)) /\ InStar(A, Suffix(w, i))

\* w is the concatenation of at least k words accepted by A (beyond
\* k + Len(w) factors, the extra ones are empty words and can be dropped)
InAtLeast(A, w, k) == \E j \in k..(k + Len(w)) : InPower(A, w, j)

\* The pairs <<S, q>> reached by some word: S the states of A and q a state
\* of B reached from their initial states by that word.
RECURSIVE ReachedPairs(_, _, _)
ReachedPairs(A, B, C) ==
    LET next == UNION {{<<UNION {Get(Row(A, s), l) : s \in c[1]}, q>> :
                          q \in Get(Row(B, c[2]), l)} : c \in C, l \in Letters}
    IN IF next \subseteq C THEN C ELSE ReachedPairs(A, B, C \cup next)

\* every word accepted by B is accepted by A
LanguageIncluded(B, A) ==
    \A c \in ReachedPairs(A, B, {<<A.initials, q>> : q \in B.initials}) :
        c[2] \in B.finals => c[1] \cap A.finals # {}

\* the states reachable from the initial states by a possibly empty path
RECURSIVE ReachClosure(_, _)
ReachClosure(A, S) ==
    LET next == S \cup UNION {Targets(A, q) : q \in S}
    IN IF next = S THEN S ELSE ReachClosure(A, next)

ReachableStates(A) == ReachClosure(A, A.initials)

\* the states from which a final state is reachable by a possibly empty path
RECURSIVE CoreachClosure(_, _)
CoreachClosure(A, S) ==
    LET next == S \cup {q \in StatesOf(NumStates(A)) : Targets(A, q) \cap S # {}}
    IN IF next = S THEN S ELSE CoreachClosure(A, next)

CoreachableStates(A) == CoreachClosure(A, A.finals)

\* A accepts every word over its alphabet
AcceptsEverything(A) == LanguageIncluded(new_full(A.alphabet), A)

\* A and B accept the same words
LanguageEqual(A, B) == LanguageIncluded(A, B) /\ LanguageIncluded(B, A)

\* the repetition counts a range denotes, as integers: lo and hi (hi < lo for
\* an empty range)
RangeLo(r) == RangeStart(r)

RangeHi(r) ==
    CASE r.end[1] = "Included" -> r.end[2]
      [] r.end[1] = "Excluded" -> r.end[2] - 1
      [] OTHER -> -1

RangeIsEmpty(r) == r.end[1] # "Unbounded" /\ RangeHi(r) < RangeLo(r)

(***************************************************************************)
(* Operands a client can pass.                                             *)
(***************************************************************************)
BoundsUpTo(n) ==
    {<<"Included", i>> : i \in 0..n} \cup {<<"Excluded", i>> : i \in 0..n}
        \cup {<<"Unbounded", 0>>}

\* the ranges a..b, a..=b, a.., ..b, ..=b, .. and the ranges with an
\* excluded start that a pair of Bound values gives
Ranges == [start : BoundsUpTo(MaxRepeat), end : BoundsUpTo(MaxRepeat)]

\* the leaves of a regular expression
RegexAtoms == {Letter(l) : l \in Letters} \cup {Epsilon, Empty, Dot}

\* the trees of enum Operations nested at most d deep, a Union or Concat having
\* at most MaxKids children and a Repeat bounds up to MaxRepeat
RECURSIVE RegexTrees(_)
RegexTrees(d) ==
    IF d = 0 THEN RegexAtoms
    ELSE LET T == RegexTrees(d - 1)
             lists == UNION {[1..n -> T] : n \in 0..MaxKids}
         IN T \cup {Union({q[i] : i \in 1..Len(q)}) : q \in lists}
              \cup {Concat(q) : q \in lists}
              \cup {Repeat(o, r[1], r[2]) :
                      o \in T,
                      r \in (0..MaxRepeat) \X ({NoMax} \cup (0..MaxRepeat))}

\* an NFA whose fields fit a DFA: one initial state, one successor per key
IsDeterministic(A) ==
    /\ Cardinality(A.initials) = 1
    /\ \A q \in StatesOf(NumStates(A)) : \A k \in DOMAIN Row(A, q) :
          Cardinality(Row(A, q)[k]) = 1

\* the DFA with the fields of a deterministic A (what DFA::from_raw accepts)
AsDfa(A) ==
    [alphabet |-> A.alphabet,
     initial |-> CHOOSE q \in A.initials : TRUE,
     finals |-> A.finals,
     transitions |->
        [i \in 1..NumStates(A) |->
            [k \in DOMAIN A.transitions[i] |->
                CHOOSE t \in A.transitions[i][k] : TRUE]]]

(***************************************************************************)
(* Operations a client calls.                                              *)
(***************************************************************************)
DoRun ==
    /\ op = "init"
    /\ \E w \in Words :
          /\ word' = w
          /\ out' = NFA_run(a, w)
    /\ op' = "run"
    /\ UNCHANGED <<a, b, range, calls>>

DoToDfa ==
    /\ op = "init"
    /\ \E ord \in Orders : out' = NFA_to_dfa(a, ord)
    /\ op' = "to_dfa"
    /\ UNCHANGED <<a, b, word, range, calls>>

DoNegate ==
    /\ op = "init"
    /\ \E ord \in Orders : out' = NFA_negate(a, ord)
    /\ op' = "negate"
    /\ UNCHANGED <<a, b, word, range, calls>>

DoDfaNegate ==
    /\ op = "init"
    /\ IsDeterministic(a)
    /\ out' = DFA_negate(AsDfa(a))
    /\ op' = "dfa_negate"
    /\ UNCHANGED <<a, b, word, range, calls>>

DoKleene ==
    /\ op = "init"
    /\ out' = kleene(a)
    /\ op' = "kleene"
    /\ UNCHANGED <<a, b, word, range, calls>>

DoUnite ==
    /\ op = "init"
    /\ out' = unite(a, b)
    /\ op' = "unite"
    /\ UNCHANGED <<a, b, word, range, calls>>

DoConcatenate ==
    /\ op = "init"
    /\ out' = concatenate(a, b)
    /\ op' = "concatenate"
    /\ UNCHANGED <<a, b, word, range, calls>>

DoIntersect ==
    /\ op = "init"
    /\ \E ord \in Orders : out' = intersect(a, b, ord)
    /\ op' = "intersect"
    /\ UNCHANGED <<a, b, word, range, calls>>

DoContains ==
    /\ op = "init"
    /\ \E ord \in Orders : out' = contains(a, b, ord)
    /\ op' = "contains"
    /\ UNCHANGED <<a, b, word, range, calls>>

DoRepeat ==
    /\ op = "init"
    /\ \E r \in Ranges, checks \in BOOLEAN :
          /\ range' = r
          /\ out' = repeat(a, r, checks)
    /\ op' = "repeat"
    /\ UNCHANGED <<a, b, word, calls>>

DoAtMost ==
    /\ op = "init"
    /\ \E u \in 0..MaxRepeat :
          /\ range' = [start |-> <<"Unbounded", 0>>, end |-> <<"Included", u>>]
          /\ out' = at_most(a, u)
    /\ op' = "at_most"
    /\ UNCHANGED <<a, b, word, calls>>

DoAtLeast ==
    /\ op = "init"
    /\ \E u \in 0..MaxRepeat :
          /\ range' = [start |-> <<"Included", u>>, end |-> <<"Unbounded", 0>>]
          /\ out' = at_least(a, u)
    /\ op' = "at_least"
    /\ UNCHANGED <<a, b, word, calls>>

DoIsEmpty ==
    /\ op = "init"
    /\ out' = NFA_is_empty(a)
    /\ op' = "is_empty"
    /\ UNCHANGED <<a, b, word, range, calls>>

DoDfaIsEmpty ==
    /\ op = "init"
    /\ IsDeterministic(a)
    /\ out' = DFA_is_empty(AsDfa(a))
    /\ op' = "dfa_is_empty"
    /\ UNCHANGED <<a, b, word, range, calls>>

DoIsFull ==
    /\ op = "init"
    /\ out' = NFA_is_full(a)
    /\ op' = "is_full"
    /\ UNCHANGED <<a, b, word, range, calls>>

DoDfaIsFull ==
    /\ op = "init"
    /\ IsDeterministic(a)
    /\ out' = DFA_is_full(AsDfa(a))
    /\ op' = "dfa_is_full"
    /\ UNCHANGED <<a, b, word, range, calls>>

DoComplete ==
    /\ op = "init"
    /\ out' = NFA_complete(a)
    /\ op' = "complete"
    /\ UNCHANGED <<a, b, word, range, calls>>

DoMakeReachable ==
    /\ op = "init"
    /\ out' = NFA_make_reachable(a)
    /\ op' = "make_reachable"
    /\ UNCHANGED <<a, b, word, range, calls>>

DoMakeCoreachable ==
    /\ op = "init"
    /\ out' = NFA_make_coreachable(a)
    /\ op' = "make_coreachable"
    /\ UNCHANGED <<a, b, word, range, calls>>

DoTrim ==
    /\ op = "init"
    /\ out' = NFA_trim(a)
    /\ op' = "trim"
    /\ UNCHANGED <<a, b, word, range, calls>>

DoDfaComplete ==
    /\ op = "init"
    /\ IsDeterministic(a)
    /\ out' = DFA_complete(AsDfa(a))
    /\ op' = "dfa_complete"
    /\ UNCHANGED <<a, b, word, range, calls>>

DoDfaMakeReachable ==
    /\ op = "init"
    /\ IsDeterministic(a)
    /\ \E ord \in Orders : out' = DFA_make_reachable(AsDfa(a), ord)
    /\ op' = "dfa_make_reachable"
    /\ UNCHANGED <<a, b, word, range, calls>>

DoDfaMakeCoreachable ==
    /\ op = "init"
    /\ IsDeterministic(a)
    /\ \E ord \in Orders : out' = DFA_make_coreachable(AsDfa(a), ord)
    /\ op' = "dfa_make_coreachable"
    /\ UNCHANGED <<a, b, word, range, calls>>

DoDfaTrim ==
    /\ op = "init"
    /\ IsDeterministic(a)
    /\ \E ord \in Orders : out' = DFA_trim(AsDfa(a), ord)
    /\ op' = "dfa_trim"
    /\ UNCHANGED <<a, b, word, range, calls>>

DoMinimize ==
    /\ op = "init"
    /\ IsDeterministic(a)
    /\ \E ord \in Orders, ord2 \in Orders : out' = DFA_minimize(AsDfa(a), ord, ord2)
    /\ op' = "minimize"
    /\ UNCHANGED <<a, b, word, range, calls>>

DoToDfaMinimize ==
    /\ op = "init"
    /\ \E ord \in Orders, ord2 \in Orders : out' = DFA_minimize(NFA_to_dfa(a, ord), ord, ord2)
    /\ op' = "to_dfa_minimize"
    /\ UNCHANGED <<a, b, word, range, calls>>

DoSimplify ==
    /\ op = "init"
    /\ out' = Regex_simplify(a)
    /\ op' = "simplify"
    /\ UNCHANGED <<a, b, word, range, calls>>

DoToRegex ==
    /\ op = "init"
    /\ \E ord \in Orders : out' = NFA_to_regex(a, ord)
    /\ op' = "to_regex"
    /\ UNCHANGED <<a, b, word, range, calls>>

(***************************************************************************)
(* Specifications.  Each starts from the operands of a call and takes the  *)
(* call as its step.                                                       *)
(***************************************************************************)
\* one well-formed NFA over any alphabet
Init ==
    /\ \E alpha \in SUBSET Letters : InputNFA(a, alpha, MaxStates)
    /\ b = new_empty(Letters)
    /\ word = <<>>
    /\ range = NoRange
    /\ op = "init"
    /\ out = FALSE
    /\ calls = 0

\* two well-formed NFAs over the same alphabet
InitSameAlphabet ==
    /\ \E alpha \in SUBSET Letters : InputPair(a, b, alpha, alpha, MaxPairTrans)
    /\ word = <<>>
    /\ range = NoRange
    /\ op = "init"
    /\ out = FALSE
    /\ calls = 0

\* two well-formed NFAs, each over its own alphabet
InitAnyAlphabets ==
    /\ \E alphaA \in SUBSET Letters, alphaB \in SUBSET Letters :
          InputPair(a, b, alphaA, alphaB, MaxPairTrans)
    /\ word = <<>>
    /\ range = NoRange
    /\ op = "init"
    /\ out = FALSE
    /\ calls = 0

\* two well-formed NFAs, each over its own alphabet, with at most MaxTrans
\* transitions together
InitFewTransitions ==
    /\ \E alphaA \in SUBSET Letters, alphaB \in SUBSET Letters :
          InputPair(a, b, alphaA, alphaB, MaxTrans)
    /\ word = <<>>
    /\ range = NoRange
    /\ op = "init"
    /\ out = FALSE
    /\ calls = 0

Next == DoRun \/ DoToDfa \/ DoNegate \/ DoDfaNegate \/ DoKleene

Spec == Init /\ [][Next]_vars

SpecRun == Init /\ [][DoRun]_vars

SpecToDfa == Init /\ [][DoToDfa]_vars

NextNegate == DoNegate \/ DoDfaNegate

SpecNegate == Init /\ [][NextNegate]_vars

SpecKleene == Init /\ [][DoKleene]_vars

NextRepeat == DoRepeat \/ DoAtMost \/ DoAtLeast

SpecRepeat == Init /\ [][NextRepeat]_vars

SpecContains == InitFewTransitions /\ [][DoContains]_vars

\* an NFA passed as both operands
InitSelf ==
    /\ \E alpha \in SUBSET Letters : InputNFA(a, alpha, MaxStates)
    /\ b = a
    /\ word = <<>>
    /\ range = NoRange
    /\ op = "init"
    /\ out = FALSE
    /\ calls = 0

InitIntersect == InitSameAlphabet \/ InitSelf

SpecIntersect == InitIntersect /\ [][DoIntersect]_vars

SpecConcatenate == InitSameAlphabet /\ [][DoConcatenate]_vars

SpecUnite == InitAnyAlphabets /\ [][DoUnite]_vars

\* one well-formed DFA over any alphabet, held in a as the NFA with the same
\* fields
InitDfa ==
    /\ \E alpha \in SUBSET Letters : InputDFA(a, alpha, MaxStates)
    /\ b = new_empty(Letters)
    /\ word = <<>>
    /\ range = NoRange
    /\ op = "init"
    /\ out = FALSE
    /\ calls = 0

InitNfaOrDfa == Init \/ InitDfa

NextIsFull == DoIsFull \/ DoDfaIsFull

SpecIsFull == InitNfaOrDfa /\ [][NextIsFull]_vars

NextIsEmpty == DoIsEmpty \/ DoDfaIsEmpty

SpecIsEmpty == InitNfaOrDfa /\ [][NextIsEmpty]_vars

NextNfaNormalise == DoComplete \/ DoMakeReachable \/ DoMakeCoreachable \/ DoTrim

SpecNfaNormalise == Init /\ [][NextNfaNormalise]_vars

NextDfaNormalise ==
    DoDfaComplete \/ DoDfaMakeReachable \/ DoDfaMakeCoreachable \/ DoDfaTrim

SpecDfaNormalise == InitDfa /\ [][NextDfaNormalise]_vars

NextNormalise == NextNfaNormalise \/ NextDfaNormalise

SpecNormalise == InitNfaOrDfa /\ [][NextNormalise]_vars

NextMinimize == DoMinimize \/ DoToDfaMinimize

SpecMinimize == InitNfaOrDfa /\ [][NextMinimize]_vars

\* one regular expression over the two letters
InitRegex ==
    /\ \E t \in RegexTrees(MaxRegexDepth) : a = [alphabet |-> Letters, regex |-> t]
    /\ b = new_empty(Letters)
    /\ word = <<>>
    /\ range = NoRange
    /\ op = "init"
    /\ out = FALSE
    /\ calls = 0

SpecSimplify == InitRegex /\ [][DoSimplify]_vars

SpecToRegex == Init /\ [][DoToRegex]_vars

(***************************************************************************)
(* Claims.                                                                 *)
(***************************************************************************)
\* C1: run(w) is true iff the NFA has an accepting path labelled w.
C1_RunIffAcceptingPath ==
    op = "run" => (out = AcceptingPath(a, word))

\* C1 (particular cases): the empty word is accepted iff an initial state is
\* final; an NFA without initial state rejects every word; a word with a symbol
\* that labels no transition is rejected.
C1_RunCases ==
    op = "run" =>
        /\ (word = <<>> => (out = (a.initials \cap a.finals # {})))
        /\ (a.initials = {} => out = FALSE)
        /\ ((\E i \in 1..Len(word) : \A q \in StatesOf(NumStates(a)) :
                word[i] \notin DOMAIN Row(a, q)) => out = FALSE)

\* C1: run(w) is true iff there is a path labelled w from an initial to a
\* final state, with the three particular cases the claim lists.
C1_Run == C1_RunIffAcceptingPath /\ C1_RunCases

\* a word of two symbols accepted along a path through two states
C1_Witness ==
    /\ op = "run" /\ out = TRUE /\ Len(word) >= 2
    /\ NumStates(a) = 2
    /\ a.initials \cap a.finals = {}

\* C2: the DFA built by to_dfa accepts exactly the words the NFA accepts.
C2_ToDfaSameLanguage ==
    op = "to_dfa" => \A w \in Words : DFA_run(out, w) = NFA_run(a, w)

\* a nondeterministic NFA (one symbol leads to two states) that accepts a word
\* of two symbols; its DFA has a state for a set of two NFA states
C2_Witness ==
    /\ op = "to_dfa"
    /\ \E q \in StatesOf(NumStates(a)) : \E l \in DOMAIN Row(a, q) :
          Cardinality(Row(a, q)[l]) = 2
    /\ Len(out.transitions) >= 2
    /\ \E w \in Words : Len(w) >= 2 /\ NFA_run(a, w) /\ DFA_run(out, w)

\* C3: contains(A, B) is true iff every word B accepts is accepted by A, also
\* when the alphabets of A and B differ.
C3_ContainsIffIncluded ==
    op = "contains" => (out = LanguageIncluded(b, a))

\* C3 for operands over one alphabet: contains(A, B) is true iff every word B
\* accepts is accepted by A.
C3_SameAlphabet ==
    (op = "contains" /\ a.alphabet = b.alphabet) => (out = LanguageIncluded(b, a))

\* C4: negate accepts a word over the alphabet iff the automaton rejects it
\* (NFA and DFA), and negating twice gives back the language.
C4_NegateComplements ==
    /\ op = "negate" =>
          /\ \A w \in WordsOver(a.alphabet) : NFA_run(out, w) = ~NFA_run(a, w)
          /\ \A ord \in Orders :
                LET twice == NFA_negate(out, ord)
                IN \A w \in WordsOver(a.alphabet) :
                      NFA_run(twice, w) = NFA_run(a, w)
    /\ op = "dfa_negate" =>
          /\ \A w \in WordsOver(a.alphabet) :
                DFA_run(out, w) = ~DFA_run(AsDfa(a), w)
          /\ LET twice == DFA_negate(out)
             IN \A w \in WordsOver(a.alphabet) :
                   DFA_run(twice, w) = DFA_run(AsDfa(a), w)

\* an incomplete NFA with a nonempty language: negation adds the sink state
C4_Witness ==
    /\ op = "negate"
    /\ \E w \in WordsOver(a.alphabet) : NFA_run(a, w)
    /\ \E w \in WordsOver(a.alphabet) : Len(w) >= 2 /\ NFA_run(out, w)
    /\ NumStates(out) > NumStates(a)

\* C5: over one alphabet, intersect accepts w iff both operands accept w; the
\* intersection of an NFA with itself accepts the words of the NFA.
C5_Intersect ==
    op = "intersect" =>
        /\ \A w \in Words : NFA_run(out, w) = (NFA_run(a, w) /\ NFA_run(b, w))
        /\ a = b => \A w \in Words : NFA_run(out, w) = NFA_run(a, w)

\* two different operands whose languages share a nonempty word, each
\* accepting a word the other rejects
C5_Witness ==
    /\ op = "intersect"
    /\ a # b
    /\ \E w \in Words : Len(w) >= 1 /\ NFA_run(out, w)
    /\ \E w \in Words : NFA_run(a, w) /\ ~NFA_run(b, w)
    /\ \E w \in Words : NFA_run(b, w) /\ ~NFA_run(a, w)

\* C6: concatenate accepts w iff w = u.v, u accepted by self, v by other.
C6_Concatenate ==
    op = "concatenate" => \A w \in Words : NFA_run(out, w) = InConcat(a, b, w)

\* both operands accept the empty word and a longer one, and other has two
\* initial states
C6_Witness ==
    /\ op = "concatenate"
    /\ NFA_run(a, <<>>) /\ NFA_run(b, <<>>)
    /\ Cardinality(b.initials) = 2
    /\ \E w \in Words : Len(w) >= 1 /\ NFA_run(a, w)
    /\ \E w \in Words : Len(w) >= 1 /\ NFA_run(b, w)
    /\ \E w \in Words : Len(w) >= 2 /\ NFA_run(out, w)

\* C7: kleene accepts w iff w is a concatenation of finitely many words of
\* the NFA; it accepts the empty word and every word of the NFA.
C7_Kleene ==
    op = "kleene" =>
        /\ \A w \in Words : NFA_run(out, w) = InStar(a, w)
        /\ NFA_run(out, <<>>)
        /\ \A w \in Words : NFA_run(a, w) => NFA_run(out, w)

\* an NFA that rejects the empty word and whose star has a word made of two
\* factors that the NFA itself rejects
C7_Witness ==
    /\ op = "kleene"
    /\ ~NFA_run(a, <<>>)
    /\ \E w \in Words : NFA_run(out, w) /\ ~NFA_run(a, w) /\ w # <<>>

\* C8: unite accepts w iff one operand does; it has |A|+|B| states, A's part
\* unchanged and B's initials, finals and targets shifted by |A|.
C8_Unite ==
    op = "unite" =>
        LET l == NumStates(a) IN
        /\ \A w \in Words : NFA_run(out, w) = (NFA_run(a, w) \/ NFA_run(b, w))
        /\ NumStates(out) = l + NumStates(b)
        /\ \A q \in StatesOf(l) : Row(out, q) = Row(a, q)
        /\ out.initials = a.initials \cup {i + l : i \in b.initials}
        /\ out.finals = a.finals \cup {f + l : f \in b.finals}
        /\ \A q \in StatesOf(NumStates(b)) :
              /\ DOMAIN Row(out, q + l) = DOMAIN Row(b, q)
              /\ \A k \in DOMAIN Row(b, q) :
                    Row(out, q + l)[k] = {t + l : t \in Row(b, q)[k]}

\* operands over different alphabets, both with states, transitions and words
C8_Witness ==
    /\ op = "unite"
    /\ a.alphabet # b.alphabet
    /\ NumStates(a) = 2 /\ NumStates(b) = 2
    /\ \E w \in Words : NFA_run(a, w) /\ ~NFA_run(b, w)
    /\ \E w \in Words : NFA_run(b, w) /\ ~NFA_run(a, w) /\ Len(w) >= 1

\* C9: for a range of counts lo..hi with lo <= hi (hi possibly unbounded),
\* repeat accepts w iff w is a concatenation of k words of the NFA with
\* lo <= k <= hi; at_most(n) accepts the concatenations of at most n words and
\* at_least(n) those of at least n words.
C9_Repeat ==
    /\ (op = "repeat" /\ ~RangeIsEmpty(range)) =>
          /\ out.status = "ok"
          /\ \A w \in Words :
                NFA_run(out.nfa, w) =
                    IF range.end[1] = "Unbounded"
                    THEN InAtLeast(a, w, RangeLo(range))
                    ELSE \E k \in RangeLo(range)..RangeHi(range) : InPower(a, w, k)
    /\ op = "at_most" =>
          \A w \in Words :
              NFA_run(out, w) = \E k \in 0..range.end[2] : InPower(a, w, k)
    /\ op = "at_least" =>
          \A w \in Words : NFA_run(out, w) = InAtLeast(a, w, range.start[2])

\* a range 1..=2 or wider applied to an NFA that rejects the empty word, the
\* result accepting a word made of two factors
C9_Witness ==
    /\ op = "repeat"
    /\ range.end[1] # "Unbounded"
    /\ RangeLo(range) >= 1 /\ RangeHi(range) > RangeLo(range)
    /\ ~NFA_run(a, <<>>)
    /\ \E w \in Words : NFA_run(out.nfa, w) /\ ~NFA_run(a, w)

\* C10: for a range with no repetition count, repeat returns the empty NFA
\* over the alphabet and completes without overflow.
C10_EmptyRange ==
    (op = "repeat" /\ RangeIsEmpty(range)) => out = Ok(new_empty(a.alphabet))

\* C11: is_full (NFA or DFA) returns true iff the automaton accepts every word
\* over its alphabet.
C11_IsFullIffAcceptsAll ==
    (op = "is_full" \/ op = "dfa_is_full") => (out = AcceptsEverything(a))

\* C12: for a complete NFA, deterministic or not, is_full returns true iff the
\* NFA accepts every word over its alphabet.
C12_CompleteIsFull ==
    (op = "is_full" /\ NFA_is_complete(a)) => (out = AcceptsEverything(a))

\* C12 restricted to complete NFAs with one initial state and one successor
\* per state and letter
C12_CompleteDeterministic ==
    (op = "is_full" /\ NFA_is_complete(a) /\ IsDeterministic(a)) =>
        (out = AcceptsEverything(a))

\* C13: is_empty (NFA or DFA) returns true iff no word is accepted, i.e. iff
\* no final state is reachable from an initial state.
C13_IsEmpty ==
    /\ op = "is_empty" =>
          /\ out = (ReachableStates(a) \cap a.finals = {})
          /\ out = ~(\E w \in Words : NFA_run(a, w))
    /\ op = "dfa_is_empty" =>
          /\ out = (ReachableStates(a) \cap a.finals = {})
          /\ out = ~(\E w \in Words : DFA_run(AsDfa(a), w))

\* a nonempty NFA whose initial states are not final: the search finds the
\* final state behind a transition
C13_Witness ==
    /\ op = "is_empty" /\ out = FALSE
    /\ a.initials \cap a.finals = {}
    /\ NumStates(a) = 2

\* C14: a regular expression and its simplification accept the same words:
\* r.simplify().to_nfa().run(w) = r.to_nfa().run(w) for every tree r and word w.
C14_SimplifyKeepsLanguage ==
    op = "simplify" =>
        LET before == Regex_to_nfa(a)
            after == Regex_to_nfa(out)
        IN \A w \in Words : NFA_run(after, w) = NFA_run(before, w)

\* C15: the regular expression to_regex builds from an NFA accepts exactly the
\* words of the NFA; for an NFA without states it is Empty.
C15_ToRegexSameLanguage ==
    op = "to_regex" =>
        /\ LET back == Regex_to_nfa(out)
           IN \A w \in Words : NFA_run(back, w) = NFA_run(a, w)
        /\ NumStates(a) = 0 => out.regex = Empty

\* an NFA with two states whose words need the closure through both: a word
\* of three letters is accepted and the empty word is not
C15_Witness ==
    /\ op = "to_regex"
    /\ NumStates(a) = 2
    /\ ~NFA_run(a, <<>>)
    /\ \E w \in Words : Len(w) = 3 /\ NFA_run(a, w) /\ NFA_run(Regex_to_nfa(out), w)

\* C16: minimize keeps the language of a DFA: D.minimize().run(w) = D.run(w)
\* for every word w, and minimize(to_dfa(A)) accepts the words of the NFA A.
C16_MinimizeKeepsLanguage ==
    /\ op = "minimize" =>
          /\ \A w \in Words : DFA_run(out, w) = DFA_run(AsDfa(a), w)
          /\ LanguageEqual(DFA_to_nfa(out), a)
    /\ op = "to_dfa_minimize" =>
          /\ \A w \in Words : DFA_run(out, w) = NFA_run(a, w)
          /\ LanguageEqual(DFA_to_nfa(out), a)

\* a DFA with two states that minimize merges into one, accepting words of
\* every length
C16_Witness ==
    /\ op = "minimize"
    /\ NumStates(a) = 2
    /\ ReachableStates(a) = {0, 1}
    /\ Len(out.transitions) = 1
    /\ \E w \in Words : Len(w) = 3 /\ DFA_run(out, w)

\* C17: the DFA minimize returns is minimal: every state is reachable from
\* the initial state, no two distinct states accept the same words, and no
\* DFA with fewer states accepts the same language.
C17_MinimizeIsMinimal ==
    (op = "minimize" \/ op = "to_dfa_minimize") =>
        LET M == DFA_to_nfa(out)
            n == Len(out.transitions)
        IN /\ ReachableStates(M) = StatesOf(n)
           /\ \A p, q \in StatesOf(n) :
                 p # q => ~LanguageEqual([M EXCEPT !.initials = {p}],
                                         [M EXCEPT !.initials = {q}])
           /\ \A m \in 1..(n - 1) :
                 \A i \in StatesOf(m), F \in SUBSET StatesOf(m),
                    f \in [StatesOf(m) \X out.alphabet -> StatesOf(m) \cup {-1}] :
                     ~LanguageEqual(
                         MkNFA(out.alphabet, m, {i}, F,
                               {<<k[1], k[2], f[k]>> :
                                   k \in {x \in DOMAIN f : f[x] # -1}}),
                         M)
           /\ (op = "minimize" => n <= NumStates(a))

\* a DFA with two reachable states over two letters that cannot be merged: the
\* result keeps two states
C17_Witness ==
    /\ op = "minimize"
    /\ a.alphabet = Letters
    /\ NumStates(a) = 2
    /\ Len(out.transitions) = 2
    /\ out.finals # {}

NfaNormalisations == {"complete", "make_reachable", "make_coreachable", "trim"}

DfaNormalisations ==
    {"dfa_complete", "dfa_make_reachable", "dfa_make_coreachable", "dfa_trim"}

\* C18: complete, make_reachable, make_coreachable and trim (NFA and DFA) keep
\* the accepted language, and applying one twice accepts what applying it once
\* accepts.
C18_NormalisePreservesLanguage ==
    /\ op \in NfaNormalisations =>
          LET twice == NFA_normalise(op, out)
          IN /\ \A w \in Words : NFA_run(out, w) = NFA_run(a, w)
             /\ \A w \in Words : NFA_run(twice, w) = NFA_run(out, w)
             /\ LanguageEqual(out, a) /\ LanguageEqual(twice, out)
    /\ op \in DfaNormalisations =>
          /\ \A w \in Words : DFA_run(out, w) = DFA_run(AsDfa(a), w)
          /\ LanguageEqual(DFA_to_nfa(out), a)
          /\ \A ord \in Orders :
                LET twice == DFA_normalise(op, out, ord)
                IN /\ \A w \in Words : DFA_run(twice, w) = DFA_run(out, w)
                   /\ LanguageEqual(DFA_to_nfa(twice), DFA_to_nfa(out))

\* trim removes a state of an NFA that still accepts a word with a letter
C18_Witness ==
    /\ op = "trim"
    /\ NumStates(a) = 2 /\ NumStates(out) = 1
    /\ \E w \in Words : Len(w) >= 1 /\ NFA_run(out, w)

\* the number of reachable states below q: the new index of q
NewIndex(A, q) == Cardinality({r \in ReachableStates(A) : r < q})

C20_DfaNormaliseEstablishes ==
    /\ op = "dfa_make_reachable" => DFA_is_reachable(out)
    /\ op = "dfa_make_coreachable" => DFA_is_coreachable(out)
    /\ op = "dfa_trim" => DFA_is_trimmed(out)
    /\ op = "dfa_complete" => DFA_is_complete(out)

\* C20 for the DFAs that accept a word
C20_NonEmptyLanguage ==
    ~NFA_is_empty(a) => C20_DfaNormaliseEstablishes

(***************************************************************************)
(* Reversal (claim C21).                                                   *)
(***************************************************************************)
DoReverse ==
    /\ op = "init"
    /\ out' = NFA_reverse(a)
    /\ op' = "reverse"
    /\ UNCHANGED <<a, b, word, range, calls>>

SpecReverse == Init /\ [][DoReverse]_vars

\* the word read backwards
ReverseWord(w) == [i \in 1..Len(w) |-> w[Len(w) + 1 - i]]

\* C21: the reverse of A accepts a word iff A accepts the word read
\* backwards, and reversing twice gives an automaton with the language of A
C21_Reverse ==
    op = "reverse" =>
        /\ \A w \in Words : NFA_run(out, w) = NFA_run(a, ReverseWord(w))
        /\ LanguageEqual(NFA_reverse(out), a)
        /\ \A w \in Words : NFA_run(NFA_reverse(out), w) = NFA_run(a, w)

\* a reversed automaton whose language is not closed under reversal
C21_Witness ==
    /\ op = "reverse"
    /\ NFA_run(a, <<"x", "y">>)
    /\ ~NFA_run(a, <<"y", "x">>)
    /\ NFA_run(out, <<"y", "x">>)
    /\ ~NFA_run(out, <<"x", "y">>)

(***************************************************************************)
(* Raw construction (claim C22).  The arguments of from_raw are any values *)
(* of the argument types: states may be out of range, keys outside the     *)
(* alphabet, successor lists empty.  A Result is the tuple <<"Ok", value>> *)
(* or the tuple of the FromRawError variant and its fields.  The elements  *)
(* of a HashSet or HashMap are visited in an order the caller does not     *)
(* control, so from_raw is the set of the results it can return.           *)
(***************************************************************************)
\* the raw arguments of NFA::from_raw: n rows, the transitions T (targets up
\* to n, one too many) and the keys E whose successor list is empty
RawNFA(alpha, n, I, F, T, E) ==
    [alphabet |-> alpha,
     initials |-> I,
     finals |-> F,
     transitions |->
        [i \in 1..n |->
            LET keys == {l \in Letters :
                            \/ <<i - 1, l>> \in E
                            \/ \E t \in 0..n : <<i - 1, l, t>> \in T}
            IN [l \in keys |-> {t \in 0..n : <<i - 1, l, t>> \in T}]]]

\* the raw arguments of DFA::from_raw: n rows, f the target of each key or
\* -1 for no key
RawDFA(alpha, n, i, F, f) ==
    [alphabet |-> alpha,
     initial |-> i,
     finals |-> F,
     transitions |->
        [q \in 1..n |->
            LET keys == {l \in Letters : f[<<q - 1, l>>] # -1}
            IN [l \in keys |-> f[<<q - 1, l>>]]]]

\* the mutant of NFA_from_raw_scan that looks at the targets of a state
\* before its keys
RECURSIVE NFA_from_raw_scan_targets_first(_, _, _)
NFA_from_raw_scan_targets_first(alphabet, transitions, state) ==
    LET len == Len(transitions) IN
    IF state >= len THEN {}
    ELSE LET map == transitions[state + 1]
             unknown == {l \in DOMAIN map : l \notin alphabet}
             bad == {p \in (DOMAIN map) \X (0..(len + 1)) :
                        p[2] \in map[p[1]] /\ p[2] >= len}
         IN IF bad # {}
            THEN {<<"InvalidTransition", state, p[1], p[2]>> : p \in bad}
            ELSE IF unknown # {}
            THEN {<<"UnknownLetter", l>> : l \in unknown}
            ELSE NFA_from_raw_scan_targets_first(alphabet, transitions, state + 1)

\* the loop over the rows: the errors it can return from row `state` on, none
\* if it runs to the end
RECURSIVE NFA_from_raw_scan(_, _, _)
NFA_from_raw_scan(alphabet, transitions, state) ==
    LET len == Len(transitions) IN
    IF state >= len THEN {}
    ELSE LET map == transitions[state + 1]
             unknown == {l \in DOMAIN map : l \notin alphabet}
             bad == {p \in (DOMAIN map) \X (0..(len + 1)) :
                        p[2] \in map[p[1]] /\ p[2] >= len}
         IN IF unknown # {}
            THEN {<<"UnknownLetter", l>> : l \in unknown}
            ELSE IF bad # {}
            THEN {<<"InvalidTransition", state, p[1], p[2]>> : p \in bad}
            ELSE NFA_from_raw_scan(alphabet, transitions, state + 1)

NFA_from_raw(alphabet, initials, finals, transitions) ==
    LET len == Len(transitions)
        errors == NFA_from_raw_scan(alphabet, transitions, 0)
    IN IF \E state \in initials : state >= len
       THEN {<<"InvalidInitial", state>> : state \in {s \in initials : s >= len}}
       ELSE IF \E state \in finals : state >= len
       THEN {<<"InvalidFinal", state>> : state \in {s \in finals : s >= len}}
       ELSE IF errors # {}
       THEN errors
       ELSE {<<"Ok", [alphabet |-> alphabet, initials |-> initials,
                      finals |-> finals, transitions |-> transitions]>>}

RECURSIVE DFA_from_raw_scan(_, _, _)
DFA_from_raw_scan(alphabet, transitions, state) ==
    LET len == Len(transitions) IN
    IF state >= len THEN {}
    ELSE LET map == transitions[state + 1]
             unknown == {l \in DOMAIN map : l \notin alphabet}
             bad == {l \in DOMAIN map : map[l] >= len}
         IN IF unknown # {}
            THEN {<<"UnknownLetter", l>> : l \in unknown}
            ELSE IF bad # {}
            THEN {<<"InvalidTransition", state, l, map[l]>> : l \in bad}
            ELSE DFA_from_raw_scan(alphabet, transitions, state + 1)

DFA_from_raw(alphabet, initial, finals, transitions) ==
    LET len == Len(transitions)
        errors == DFA_from_raw_scan(alphabet, transitions, 0)
    IN IF initial >= len
       THEN {<<"InvalidInitial", initial>>}
       ELSE IF \E state \in finals : state >= len
       THEN {<<"InvalidFinal", state>> : state \in {s \in finals : s >= len}}
       ELSE IF errors # {}
       THEN errors
       ELSE {<<"Ok", [alphabet |-> alphabet, initial |-> initial,
                      finals |-> finals, transitions |-> transitions]>>}

\* any arguments of NFA::from_raw
InitRawNfa ==
    /\ \E alpha \in SUBSET Letters, n \in 0..MaxStates :
          \E I \in SUBSET (0..n), F \in SUBSET (0..n),
             T \in SubsetsUpTo(StatesOf(n) \X Letters \X (0..n), MaxTrans),
             E \in SubsetsUpTo(StatesOf(n) \X Letters, 1) :
                a = RawNFA(alpha, n, I, F, T, E)
    /\ b = new_empty(Letters)
    /\ word = <<>>
    /\ range = NoRange
    /\ op = "init"
    /\ out = FALSE
    /\ calls = 0

\* any arguments of DFA::from_raw
InitRawDfa ==
    /\ \E alpha \in SUBSET Letters, n \in 0..MaxStates :
          \E i \in 0..n, F \in SUBSET (0..n),
             f \in [StatesOf(n) \X Letters -> (0..n) \cup {-1}] :
                a = RawDFA(alpha, n, i, F, f)
    /\ b = new_empty(Letters)
    /\ word = <<>>
    /\ range = NoRange
    /\ op = "init"
    /\ out = FALSE
    /\ calls = 0

DoFromRaw ==
    /\ op = "init"
    /\ "initials" \in DOMAIN a
    /\ out' \in NFA_from_raw(a.alphabet, a.initials, a.finals, a.transitions)
    /\ op' = "from_raw"
    /\ UNCHANGED <<a, b, word, range, calls>>

DoDfaFromRaw ==
    /\ op = "init"
    /\ "initial" \in DOMAIN a
    /\ out' \in DFA_from_raw(a.alphabet, a.initial, a.finals, a.transitions)
    /\ op' = "dfa_from_raw"
    /\ UNCHANGED <<a, b, word, range, calls>>

NextFromRaw == DoFromRaw \/ DoDfaFromRaw

SpecFromRaw == (InitRawNfa \/ InitRawDfa) /\ [][NextFromRaw]_vars

\* the initial states of the raw arguments, of an NFA or of a DFA
RawInitials == IF "initials" \in DOMAIN a THEN a.initials ELSE {a.initial}

\* the targets of key l in row q of the raw arguments
RawTargets(q, l) ==
    IF "initials" \in DOMAIN a
    THEN a.transitions[q + 1][l]
    ELSE {a.transitions[q + 1][l]}

RawLen == Len(a.transitions)

\* row q holds a key outside the alphabet
RawUnknownKey(q) == \E l \in DOMAIN a.transitions[q + 1] : l \notin a.alphabet

\* row q holds a target that is not a state
RawBadTarget(q) ==
    \E l \in DOMAIN a.transitions[q + 1] : \E t \in RawTargets(q, l) : t >= RawLen

RawValid ==
    /\ \A s \in RawInitials : s < RawLen
    /\ \A s \in a.finals : s < RawLen
    /\ \A q \in StatesOf(RawLen) : ~RawUnknownKey(q) /\ ~RawBadTarget(q)

\* C22: from_raw returns Ok with the fields as given iff every state named
\* is below the number of rows and every key is in the alphabet; otherwise
\* the first error in the order InvalidInitial, InvalidFinal, then row by
\* row UnknownLetter before InvalidTransition
C22_FromRaw ==
    op \in {"from_raw", "dfa_from_raw"} =>
        /\ (out[1] = "Ok") <=> RawValid
        /\ out[1] = "Ok" => out[2] = a
        /\ out[1] # "Ok" =>
              IF \E s \in RawInitials : s >= RawLen
              THEN out[1] = "InvalidInitial"
                   /\ out[2] \in RawInitials /\ out[2] >= RawLen
              ELSE IF \E s \in a.finals : s >= RawLen
              THEN out[1] = "InvalidFinal"
                   /\ out[2] \in a.finals /\ out[2] >= RawLen
              ELSE LET q == CHOOSE r \in StatesOf(RawLen) :
                                /\ RawUnknownKey(r) \/ RawBadTarget(r)
                                /\ \A p \in 0..(r - 1) :
                                      ~RawUnknownKey(p) /\ ~RawBadTarget(p)
                   IN IF RawUnknownKey(q)
                      THEN /\ out[1] = "UnknownLetter"
                           /\ out[2] \in DOMAIN a.transitions[q + 1]
                           /\ out[2] \notin a.alphabet
                      ELSE /\ out[1] = "InvalidTransition"
                           /\ out[2] = q
                           /\ out[3] \in DOMAIN a.transitions[q + 1]
                           /\ out[4] \in RawTargets(q, out[3])
                           /\ out[4] >= RawLen

\* from_raw reports the unknown letter of a row that also holds a target out
\* of range, after a row that is in order
C22_Witness ==
    /\ op = "from_raw"
    /\ out[1] = "UnknownLetter"
    /\ RawLen = 2
    /\ RawUnknownKey(1)
    /\ RawBadTarget(1)

\* the same for a DFA
C22_WitnessDfa ==
    /\ op = "dfa_from_raw"
    /\ out[1] = "UnknownLetter"
    /\ RawBadTarget(0)

(***************************************************************************)
(* The regex parser (parser.rs) and the printer (regex.rs:305-375).  A     *)
(* text is a sequence of characters, a character a one-element name: the   *)
(* reserved characters stand for themselves, EpsilonGlyph and EmptyGlyph   *)
(* for the two glyphs of regex.rs:371-372.  The lexer yields one token for *)
(* each character (parser.rs:15-40), a pair <<token, slice>>.  A parsing   *)
(* function returns [ok, o, tokens]: whether it returned Ok, the tree or   *)
(* the message, and the tokens left.                                       *)
(***************************************************************************)
EpsilonGlyph == "eps"

EmptyGlyph == "empty"

\* the longest text parsed
MaxTextLen == 4

Token(c) ==
    CASE c = "|" -> "Union"
      [] c = "(" -> "Lpar"
      [] c = ")" -> "Rpar"
      [] c = "." -> "Dot"
      [] c = "*" -> "Kleene"
      [] c = "?" -> "Question"
      [] c = "+" -> "Plus"
      [] c = EpsilonGlyph -> "Epsilon"
      [] OTHER -> "Letter"

tokens(s) == [i \in 1..Len(s) |-> <<Token(s[i]), s[i]>>]

peak(toks) == IF toks = <<>> THEN "None" ELSE toks[1][1]

ParseOk(o, toks) == [ok |-> TRUE, o |-> o, tokens |-> toks]

ParseErr(msg, toks) == [ok |-> FALSE, o |-> msg, tokens |-> toks]

RECURSIVE read_quantif(_, _)
read_quantif(toks, o) ==
    LET x == peak(toks) IN
    IF x = "Plus" THEN read_quantif(Tail(toks), Repeat(o, 1, NoMax))
    ELSE IF x = "Kleene" THEN read_quantif(Tail(toks), Repeat(o, 0, NoMax))
    ELSE IF x = "Question" THEN read_quantif(Tail(toks), Repeat(o, 0, 1))
    ELSE ParseOk(o, toks)

read_letter(toks) ==
    LET x == peak(toks) IN
    IF x = "Dot" THEN read_quantif(Tail(toks), Dot)
    ELSE IF x = "Epsilon" THEN read_quantif(Tail(toks), Epsilon)
    ELSE IF x = "Letter" THEN read_quantif(Tail(toks), Letter(toks[1][2]))
    ELSE ParseErr("Expected letter", toks)

RECURSIVE read_union(_), ReadUnionLoop(_, _), read_paren(_), read_concat(_),
          ReadConcatLoop(_, _)

\* the loop of read_concat with c read so far
ReadConcatLoop(toks, c) ==
    LET x == peak(toks) IN
    IF x \in {"Dot", "Epsilon", "Letter"}
    THEN LET r == read_letter(toks)
         IN IF r.ok THEN ReadConcatLoop(r.tokens, Append(c, r.o)) ELSE r
    ELSE IF x = "Lpar"
    THEN LET r == read_paren(toks)
         IN IF r.ok THEN ReadConcatLoop(r.tokens, Append(c, r.o)) ELSE r
    ELSE IF x \in {"Kleene", "Plus", "Question"}
    THEN ParseErr("Unexpected", toks)
    ELSE IF x \in {"Rpar", "Union", "End", "None"}
    THEN IF Len(c) = 1 THEN ParseOk(c[1], toks) ELSE ParseOk(Concat(c), toks)
    ELSE ParseErr("panic: unreachable", toks)

read_concat(toks) == ReadConcatLoop(toks, <<>>)

\* the loop of read_union with the alternatives u read so far
ReadUnionLoop(toks, u) ==
    LET r == read_concat(toks) IN
    IF ~r.ok THEN r
    ELSE IF peak(r.tokens) = "Union"
    THEN ReadUnionLoop(Tail(r.tokens), u \cup {r.o})
    ELSE LET all == u \cup {r.o}
         IN IF Cardinality(all) = 1
            THEN ParseOk(CHOOSE e \in all : TRUE, r.tokens)
            ELSE ParseOk(Union(all), r.tokens)

read_union(toks) == ReadUnionLoop(toks, {})

read_paren(toks) ==
    IF peak(toks) # "Lpar" THEN ParseErr("Expected left parenthesis.", toks)
    ELSE LET r == read_union(Tail(toks))
         IN IF ~r.ok THEN r
            ELSE IF peak(r.tokens) # "Rpar"
            THEN ParseErr("Expected right parenthesis.", r.tokens)
            ELSE read_quantif(Tail(r.tokens), r.o)

\* Operations::alphabet: the letters of a tree
RECURSIVE Operations_alphabet(_)
Operations_alphabet(o) ==
    CASE o.tag = "Union" -> UNION {Operations_alphabet(x) : x \in o.set}
      [] o.tag = "Concat" ->
            UNION {Operations_alphabet(o.seq[i]) : i \in 1..Len(o.seq)}
      [] o.tag = "Repeat" -> Operations_alphabet(o.seq[1])
      [] o.tag = "Letter" -> {o.letter}
      [] OTHER -> {}

\* Regex::parse_with_alphabet: the results it can return, <<"Ok", regex>> or
\* <<"Err", message>>; the letter a message names is any of the unknown ones
parse_with_alphabet(alphabet, regex) ==
    LET toks == tokens(regex) IN
    IF toks = <<>> THEN {<<"Ok", [alphabet |-> alphabet, regex |-> Empty]>>}
    ELSE LET r == read_union(toks) IN
         IF ~r.ok THEN {<<"Err", r.o>>}
         ELSE IF r.tokens # <<>> THEN {<<"Err", "Trailing characters.">>}
         ELSE IF \E x \in Operations_alphabet(r.o) : x \notin alphabet
         THEN {<<"Err", "Letter is not in the given alphabet", x>> :
                  x \in Operations_alphabet(r.o) \ alphabet}
         ELSE {<<"Ok", [alphabet |-> alphabet, regex |-> r.o]>>}

\* the characters of the texts parsed: the letters, the reserved characters
ParserChars == Letters \cup {"|", "(", ")", ".", "*", "?", "+", EpsilonGlyph}

TextsOfLen(n) == [1..n -> ParserChars]

\* a text of at most MaxTextLen characters and an explicit alphabet
InitParse ==
    /\ \E alpha \in SUBSET Letters, n \in 0..MaxTextLen :
          \E s \in TextsOfLen(n) : a = [alphabet |-> alpha, text |-> s]
    /\ b = new_empty(Letters)
    /\ word = <<>>
    /\ range = NoRange
    /\ op = "init"
    /\ out = FALSE
    /\ calls = 0

DoParse ==
    /\ op = "init"
    /\ out' \in parse_with_alphabet(a.alphabet, a.text)
    /\ op' = "parse"
    /\ UNCHANGED <<a, b, word, range, calls>>

SpecParse == InitParse /\ [][DoParse]_vars

\* The surface grammar (spec section 4.6), as a recogniser of texts.
RECURSIVE GrammarUnion(_), GrammarConcat(_), GrammarQuantified(_),
          GrammarAtom(_)
GrammarAtom(s) ==
    \/ Len(s) = 1 /\ Token(s[1]) \in {"Letter", "Dot", "Epsilon"}
    \/ /\ Len(s) >= 2
       /\ s[1] = "("
       /\ s[Len(s)] = ")"
       /\ GrammarUnion(SubSeq(s, 2, Len(s) - 1))

GrammarQuantified(s) ==
    \/ GrammarAtom(s)
    \/ /\ Len(s) >= 2
       /\ s[Len(s)] \in {"*", "+", "?"}
       /\ GrammarQuantified(SubSeq(s, 1, Len(s) - 1))

GrammarConcat(s) ==
    \/ GrammarQuantified(s)
    \/ \E i \in 1..(Len(s) - 1) :
          /\ GrammarConcat(SubSeq(s, 1, i))
          /\ GrammarQuantified(SubSeq(s, i + 1, Len(s)))

GrammarUnion(s) ==
    \/ GrammarConcat(s)
    \/ \E i \in 1..Len(s) :
          /\ s[i] = "|"
          /\ GrammarUnion(SubSeq(s, 1, i - 1))
          /\ GrammarConcat(SubSeq(s, i + 1, Len(s)))

TextLetters(s) == {s[i] : i \in {j \in 1..Len(s) : Token(s[j]) = "Letter"}}

\* C23: parsing returns Ok exactly for the texts the surface grammar derives
\* whose letters are in the alphabet, and an Err string for every other
\* text, without panicking
C23_ParseOkIffGrammar ==
    op = "parse" =>
        /\ out[1] \in {"Ok", "Err"}
        /\ out[1] = "Err" => out[2] # "panic: unreachable"
        /\ (out[1] = "Ok") <=>
              (GrammarUnion(a.text) /\ TextLetters(a.text) \subseteq a.alphabet)

\* C23 in one direction: every text the grammar derives, its letters in the
\* alphabet, is parsed, and nothing panics
C23_GrammarImpliesOk ==
    op = "parse" =>
        /\ out[1] \in {"Ok", "Err"}
        /\ out[1] = "Err" => out[2] # "panic: unreachable"
        /\ GrammarUnion(a.text) /\ TextLetters(a.text) \subseteq a.alphabet
              => out[1] = "Ok"

\* the texts parsed that the grammar does not derive: the empty text and
\* the texts with an alternative or a group of no atom
C23_OkOutsideGrammar ==
    op = "parse" /\ out[1] = "Ok" /\ ~GrammarUnion(a.text) =>
        \/ a.text = <<>>
        \/ \E i \in 0..Len(a.text) :
              /\ i = 0 \/ a.text[i] \in {"(", "|"}
              /\ i = Len(a.text) \/ a.text[i + 1] \in {")", "|"}

(***************************************************************************)
(* Operations::to_string (regex.rs:305-375).  The macro paren! and the     *)
(* function contains_dot are used there and defined nowhere under src/;    *)
(* they follow spec section 4.5: "parenthesise children whose length > 1"  *)
(* and "Unions collapse Letter children to "." when they cover the         *)
(* alphabet".                                                              *)
(***************************************************************************)
paren(s) == IF Len(s) > 1 THEN <<"(">> \o s \o <<")">> ELSE s

contains_dot(v, alphabet) == \A x \in alphabet : Letter(x) \in v

\* the decimal digits of a usize
RECURSIVE Digits(_)
Digits(n) ==
    LET d == <<"0", "1", "2", "3", "4", "5", "6", "7", "8", "9">>[(n % 10) + 1]
    IN IF n < 10 THEN <<d>> ELSE Digits(n \div 10) \o <<d>>

RECURSIVE Operations_to_string(_, _), JoinAlternatives(_, _), JoinFactors(_, _)

\* each element of v printed and followed by "|"
JoinAlternatives(v, alphabet) ==
    IF v = <<>> THEN <<>>
    ELSE Operations_to_string(Head(v), alphabet) \o <<"|">>
            \o JoinAlternatives(Tail(v), alphabet)

\* each element of v printed, a Union between parentheses
JoinFactors(v, alphabet) ==
    IF v = <<>> THEN <<>>
    ELSE (IF Head(v).tag = "Union"
          THEN <<"(">> \o Operations_to_string(Head(v), alphabet) \o <<")">>
          ELSE Operations_to_string(Head(v), alphabet))
            \o JoinFactors(Tail(v), alphabet)

Operations_to_string(o, alphabet) ==
    CASE o.tag = "Union" ->
            IF /\ Epsilon \in o.set
               /\ Cardinality(o.set) = Cardinality(alphabet) + 1
               /\ contains_dot(o.set, alphabet)
            THEN <<".", "?">>
            ELSE LET v == SortedSeq(o.set)
                     acc == IF \A x \in alphabet : Letter(x) \in o.set
                            THEN <<".", "|">> \o
                                 JoinAlternatives(
                                    SelectSeq(v, LAMBDA x : x.tag # "Letter"),
                                    alphabet)
                            ELSE JoinAlternatives(v, alphabet)
                 IN IF acc = <<>> THEN acc ELSE SubSeq(acc, 1, Len(acc) - 1)
      [] o.tag = "Concat" -> JoinFactors(o.seq, alphabet)
      [] o.tag = "Repeat" ->
            LET p == paren(Operations_to_string(o.seq[1], alphabet)) IN
            IF o.min = 0 /\ o.max = NoMax THEN p \o <<"*">>
            ELSE IF o.min = 1 /\ o.max = NoMax THEN p \o <<"+">>
            ELSE IF o.min = 0 /\ o.max = 1 THEN p \o <<"?">>
            ELSE IF o.min = 0
            THEN p \o <<"{", ",">> \o Digits(o.max) \o <<"}">>
            ELSE IF o.max # NoMax
            THEN IF o.min = o.max
                 THEN p \o <<"{">> \o Digits(o.min) \o <<"}">>
                 ELSE p \o <<"{">> \o Digits(o.min) \o <<",">>
                        \o Digits(o.max) \o <<"}">>
            ELSE p \o <<"{">> \o Digits(o.min) \o <<",", "}">>
      [] o.tag = "Letter" -> <<o.letter>>
      [] o.tag = "Epsilon" -> <<EpsilonGlyph>>
      [] o.tag = "Empty" -> <<EmptyGlyph>>
      [] OTHER -> <<".">>

Regex_to_string(r) == Operations_to_string(r.regex, r.alphabet)

\* print a Regex, then parse the text with the alphabet of the Regex
DoPrintParse ==
    /\ op = "init"
    /\ out' \in parse_with_alphabet(a.alphabet, Regex_to_string(a))
    /\ op' = "print_parse"
    /\ UNCHANGED <<a, b, word, range, calls>>

SpecPrintParse == InitRegex /\ [][DoPrintParse]_vars

\* C24: the pretty-printed text of every Regex is parsed, with the alphabet
\* of the Regex, to a Regex that accepts the same language
C24_RoundTrip ==
    op = "print_parse" =>
        /\ out[1] = "Ok"
        /\ LanguageEqual(Regex_to_nfa(out[2]), Regex_to_nfa(a))

\* the trees the surface syntax can write: no Empty, no Union or Concat of
\* nothing, and only the repetitions "*", "+" and "?"
RECURSIVE WrittenWithSugar(_)
WrittenWithSugar(o) ==
    CASE o.tag = "Union" -> o.set # {} /\ \A x \in o.set : WrittenWithSugar(x)
      [] o.tag = "Concat" ->
            o.seq # <<>> /\ \A i \in 1..Len(o.seq) : WrittenWithSugar(o.seq[i])
      [] o.tag = "Repeat" ->
            /\ <<o.min, o.max>> \in {<<0, NoMax>>, <<1, NoMax>>, <<0, 1>>}
            /\ WrittenWithSugar(o.seq[1])
      [] o.tag = "Empty" -> FALSE
      [] OTHER -> TRUE

\* C24 for the trees the surface syntax can write
C24_RoundTripOfSugar ==
    op = "print_parse" /\ WrittenWithSugar(a.regex) => C24_RoundTrip

(***************************************************************************)
(* Building an automaton by a sequence of calls (claim C25): the           *)
(* constructors, then any operation of Buildable and Automata on the       *)
(* automaton built so far, with the automaton built before as the second   *)
(* operand of unite, concatenate and intersect.                            *)
(***************************************************************************)
\* the number of calls of a sequence
MaxCalls == 2

\* the largest automaton an operation is applied to
MaxBuiltStates == 3

\* what the constructors return for an alphabet, lengths up to MaxStates
Constructed(alpha) ==
    {new_empty(alpha), new_empty_word(alpha), new_full(alpha)}
        \cup {new_length(alpha, n) : n \in 0..MaxStates}
        \cup {new_matching(alpha, w) :
                w \in {v \in WordsOver(alpha) : Len(v) <= MaxStates}}

InitBuild ==
    /\ \E alpha \in SUBSET Letters : a \in Constructed(alpha)
    /\ b = new_empty(Letters)
    /\ word = <<>>
    /\ range = NoRange
    /\ op = "init"
    /\ out = FALSE
    /\ calls = 0

\* the call named f returned r: it is the automaton built so far
Built(f, r) ==
    /\ calls < MaxCalls
    /\ NumStates(a) <= MaxBuiltStates
    /\ a' = r
    /\ out' = r
    /\ op' = f
    /\ calls' = calls + 1
    /\ UNCHANGED <<word, range>>

\* a constructor starts another automaton; the one built so far is kept as
\* the second operand
BuildNew ==
    /\ \E alpha \in SUBSET Letters : \E r \in Constructed(alpha) : Built("new", r)
    /\ b' = a

BuildUnite ==
    /\ NumStates(b) <= MaxBuiltStates
    /\ Built("unite", unite(a, b)) \/ Built("unite", unite(b, a))
    /\ UNCHANGED b

BuildConcatenate ==
    /\ NumStates(b) <= MaxBuiltStates
    /\ Built("concatenate", concatenate(a, b))
          \/ Built("concatenate", concatenate(b, a))
    /\ UNCHANGED b

BuildIntersect ==
    /\ NumStates(b) <= MaxBuiltStates
    /\ \E ord \in Orders : Built("intersect", intersect(a, b, ord))
    /\ UNCHANGED b

BuildKleene == Built("kleene", kleene(a)) /\ UNCHANGED b

BuildAtMost == (\E u \in 0..MaxRepeat : Built("at_most", at_most(a, u))) /\ UNCHANGED b

BuildAtLeast ==
    (\E u \in 0..MaxRepeat : Built("at_least", at_least(a, u))) /\ UNCHANGED b

\* a call of repeat that returns
BuildRepeat ==
    /\ \E r \in Ranges, checks \in BOOLEAN :
          LET res == repeat(a, r, checks)
          IN res.status = "ok" /\ Built("repeat", res.nfa)
    /\ UNCHANGED b

BuildComplete == Built("complete", NFA_complete(a)) /\ UNCHANGED b

BuildReverse == Built("reverse", NFA_reverse(a)) /\ UNCHANGED b

BuildMakeReachable == Built("make_reachable", NFA_make_reachable(a)) /\ UNCHANGED b

BuildMakeCoreachable ==
    Built("make_coreachable", NFA_make_coreachable(a)) /\ UNCHANGED b

BuildTrim == Built("trim", NFA_trim(a)) /\ UNCHANGED b

BuildNegate == (\E ord \in Orders : Built("negate", NFA_negate(a, ord))) /\ UNCHANGED b

NextBuild ==
    \/ BuildNew
    \/ BuildUnite
    \/ BuildConcatenate
    \/ BuildIntersect
    \/ BuildKleene
    \/ BuildAtMost
    \/ BuildAtLeast
    \/ BuildRepeat
    \/ BuildComplete
    \/ BuildReverse
    \/ BuildMakeReachable
    \/ BuildMakeCoreachable
    \/ BuildTrim
    \/ BuildNegate

SpecBuild == InitBuild /\ [][NextBuild]_vars

\* C25: every NFA built from the constructors by a sequence of operations
\* keeps its initial states, final states and transition targets below the
\* number of states, its keys in the alphabet, and no successor list empty
C25_BuiltWellFormed == WellFormed(a) /\ WellFormed(b)

\* two calls made, the last a concatenation that left a state with two
\* successors under one letter
C25_Witness ==
    /\ calls = MaxCalls
    /\ op = "concatenate"
    /\ NumStates(a) >= 4
    /\ \E q \in StatesOf(NumStates(a)) : \E l \in DOMAIN Row(a, q) :
          Cardinality(Row(a, q)[l]) >= 2

(***************************************************************************)
(* The subset construction, state by state (claim C26).                    *)
(***************************************************************************)
\* one more state and one more transition than Init, so that four subsets
\* can be discovered
InitSubsets ==
    /\ \E alpha \in SUBSET Letters, n \in 0..(MaxStates + 1) :
          \E I \in SUBSET StatesOf(n), F \in SUBSET StatesOf(n),
             T \in SubsetsUpTo(StatesOf(n) \X alpha \X StatesOf(n), MaxTrans + 1) :
                a = MkNFA(alpha, n, I, F, T)
    /\ b = new_empty(Letters)
    /\ word = <<>>
    /\ range = NoRange
    /\ op = "init"
    /\ out = FALSE
    /\ calls = 0

SpecSubsets == InitSubsets /\ [][DoToDfa]_vars

\* the states A reaches from the states of S by the letter v
Successors(A, S, v) == UNION {Get(Row(A, q), v) : q \in S}

\* The subsets in breadth-first order of first discovery: found is the list so
\* far, k the position of the subset being expanded, letters the letters not
\* yet tried for it, in iteration order.
RECURSIVE Discovered(_, _, _, _, _)
Discovered(A, found, k, letters, all) ==
    IF k > Len(found) THEN found
    ELSE IF letters = <<>> THEN Discovered(A, found, k + 1, all, all)
    ELSE LET T == Successors(A, found[k], Head(letters))
         IN IF T = {} \/ \E i \in 1..Len(found) : found[i] = T
            THEN Discovered(A, found, k, Tail(letters), all)
            ELSE Discovered(A, Append(found, T), k, Tail(letters), all)

BreadthFirst(A, ord) ==
    Discovered(A, <<A.initials>>, 1, IterOrder(A.alphabet, ord),
               IterOrder(A.alphabet, ord))

\* the 0-based position of S in the list
IdOf(found, S) == (CHOOSE i \in 1..Len(found) : found[i] = S) - 1

\* D is the DFA whose state i is the i-th subset discovered
NumberedBreadthFirst(A, D, found) ==
    /\ found[1] = A.initials
    /\ D.initial = 0
    /\ Len(D.transitions) = Len(found)
    /\ \A i, j \in 1..Len(found) : found[i] = found[j] => i = j
    /\ \A i \in 1..Len(found) : found[i] # {} /\ found[i] \subseteq StatesOf(NumStates(A))
    /\ D.finals = {i - 1 : i \in {j \in 1..Len(found) : found[j] \cap A.finals # {}}}
    /\ \A i \in 1..Len(found) :
          /\ DOMAIN D.transitions[i] \subseteq A.alphabet
          /\ \A v \in A.alphabet :
                LET T == Successors(A, found[i], v)
                IN IF T = {} THEN v \notin DOMAIN D.transitions[i]
                   ELSE /\ v \in DOMAIN D.transitions[i]
                        /\ \E j \in 1..Len(found) : found[j] = T
                        /\ D.transitions[i][v] = IdOf(found, T)

\* C26: for an NFA that accepts a word, state 0 of the DFA is the set of
\* initial states, the states are the distinct nonempty subsets reachable
\* from it numbered in breadth-first order of discovery, a state is final iff
\* its subset holds a final state, and the transition of a state by a letter
\* leads to the state of the union of the successors, when there are any
C26_SubsetConstruction ==
    op = "to_dfa" /\ ~NFA_is_empty(a) =>
        \E ord \in Orders : NumberedBreadthFirst(a, out, BreadthFirst(a, ord))

\* a subset construction that discovers four subsets, one of them with two
\* states
C26_Witness ==
    /\ op = "to_dfa"
    /\ ~NFA_is_empty(a)
    /\ Len(out.transitions) >= 4
    /\ \E ord \in Orders :
          \E i \in 1..Len(BreadthFirst(a, ord)) :
             Cardinality(BreadthFirst(a, ord)[i]) >= 2

(***************************************************************************)
(* to_dfa with the encoding of the subsets (claim C27).  TLC's integers    *)
(* stop at 2^31 - 1, so a W-bit word is kept here as the set of the        *)
(* positions of its 1 bits, a subset of 0 .. W-1: zero is {}, | is \cup,   *)
(* and 1 << x is {x} when x < W.  When x >= W the shift overflows: a build *)
(* with overflow checks panics, a build without takes x modulo W.  The     *)
(* width 0 stands for the BTreeSet<usize> key of big_to_dfa.               *)
(***************************************************************************)
U32Bits == 32

U64Bits == 64

U128Bits == 128

\* the encoding with u32 kept up to 63 states
EncodingWidth_u32_below_64(n) ==
    IF n < U64Bits THEN U32Bits
    ELSE IF n < U128Bits THEN U128Bits
    ELSE 0

\* the width to_dfa picks for an NFA of n states
EncodingWidth(n) ==
    IF n < U32Bits THEN U32Bits
    ELSE IF n < U64Bits THEN U64Bits
    ELSE IF n < U128Bits THEN U128Bits
    ELSE 0

\* |x| 1 << x at width W, without overflow checks
ShiftAt(x, W) == {x % W}

\* fold(zero, |acc, x| acc | shift(*x))
KeyAt(S, W) == UNION {ShiftAt(x, W) : x \in S}

\* the body of the loop over the alphabet of small_to_dfa at width W; st
\* holds map, stack, dfa and whether a shift has panicked
EncodedLetter(A, st, elem_num, iter, v, W, checks) ==
    LET it == UNION {Get(Row(A, state), v) : state \in iter} IN
    IF it = {} \/ st.panic THEN st
    ELSE IF checks /\ \E x \in it : x >= W THEN [st EXCEPT !.panic = TRUE]
    ELSE LET other == KeyAt(it, W)
             l == Len(st.dfa.transitions)
             st1 == IF other \in DOMAIN st.map THEN st
                    ELSE [map |-> Put(st.map, other, l),
                          stack |-> Append(st.stack, <<other, it>>),
                          dfa |-> [st.dfa EXCEPT
                                     !.finals = IF \E x \in it : x \in A.finals
                                                THEN @ \cup {l} ELSE @,
                                     !.transitions = Append(@, EmptyMap)],
                          panic |-> FALSE]
             val == st1.map[other]
         IN [st1 EXCEPT !.dfa.transitions[elem_num + 1] = Put(@, v, val)]

RECURSIVE EncodedLetters(_, _, _, _, _, _, _)
EncodedLetters(A, st, elem_num, iter, letters, W, checks) ==
    IF letters = <<>> THEN st
    ELSE EncodedLetters(A, EncodedLetter(A, st, elem_num, iter, Head(letters),
                                         W, checks),
                        elem_num, iter, Tail(letters), W, checks)

\* what a call that may panic gives: the DFA it returns, or a panic
Returned(dfa) == [panic |-> FALSE, dfa |-> dfa]

Panicked(alphabet) == [panic |-> TRUE, dfa |-> DFA_new_empty(alphabet)]

RECURSIVE EncodedLoop(_, _, _, _, _)
EncodedLoop(A, st, ord, W, checks) ==
    IF st.panic THEN Panicked(A.alphabet)
    ELSE IF st.stack = <<>> THEN Returned(st.dfa)
    ELSE LET elem == Head(st.stack)[1]
             iter == Head(st.stack)[2]
             popped == [st EXCEPT !.stack = Tail(@)]
         IN EncodedLoop(A, EncodedLetters(A, popped, popped.map[elem], iter,
                                          IterOrder(A.alphabet, ord), W, checks),
                        ord, W, checks)

\* small_to_dfa instantiated at the width W
small_to_dfa_at(A, ord, W, checks) ==
    IF checks /\ \E x \in A.initials : x >= W THEN Panicked(A.alphabet)
    ELSE LET i == KeyAt(A.initials, W)
             dfa0 == DFA_new_empty(A.alphabet)
             dfa == IF \E x \in A.initials : x \in A.finals
                    THEN [dfa0 EXCEPT !.finals = @ \cup {0}] ELSE dfa0
         IN EncodedLoop(A, [map |-> Put(EmptyMap, i, 0),
                            stack |-> <<<<i, A.initials>>>>,
                            dfa |-> dfa,
                            panic |-> FALSE], ord, W, checks)

\* the body of the loop over the alphabet of big_to_dfa
BigLetter(A, st, num, set, v) ==
    LET it == UNION {Get(Row(A, s), v) : s \in set} IN
    IF it = {} THEN st
    ELSE LET other == it
             l == Len(st.dfa.transitions)
             st1 == IF other \in DOMAIN st.map THEN st
                    ELSE [map |-> Put(st.map, other, l),
                          stack |-> Append(st.stack, other),
                          dfa |-> [st.dfa EXCEPT
                                     !.finals = IF \E x \in it : x \in A.finals
                                                THEN @ \cup {l} ELSE @,
                                     !.transitions = Append(@, EmptyMap)]]
         IN [st1 EXCEPT !.dfa.transitions[num + 1] = Put(@, v, st1.map[other])]

RECURSIVE BigLetters(_, _, _, _, _)
BigLetters(A, st, num, set, letters) ==
    IF letters = <<>> THEN st
    ELSE BigLetters(A, BigLetter(A, st, num, set, Head(letters)),
                    num, set, Tail(letters))

RECURSIVE BigLoop(_, _, _)
BigLoop(A, st, ord) ==
    IF st.stack = <<>> THEN st.dfa
    ELSE LET set == Head(st.stack)
             popped == [st EXCEPT !.stack = Tail(@)]
         IN BigLoop(A, BigLetters(A, popped, popped.map[set], set,
                                  IterOrder(A.alphabet, ord)), ord)

big_to_dfa(A, ord) ==
    LET initial == A.initials
        dfa0 == DFA_new_empty(A.alphabet)
        dfa == IF \E x \in A.initials : x \in A.finals
               THEN [dfa0 EXCEPT !.finals = @ \cup {0}] ELSE dfa0
    IN BigLoop(A, [map |-> Put(EmptyMap, initial, 0),
                   stack |-> <<initial>>,
                   dfa |-> dfa], ord)

\* to_dfa for an NFA of any number of states
NFA_to_dfa_encoded(A, ord, checks) ==
    LET W == EncodingWidth(NumStates(A)) IN
    IF NFA_is_empty(A) THEN Returned(DFA_new_empty(A.alphabet))
    ELSE IF W # 0 THEN small_to_dfa_at(A, ord, W, checks)
    ELSE Returned(big_to_dfa(A, ord))

\* the numbers of states at which the encoding changes, and a small one
WideSizes ==
    {3, U32Bits - 1, U32Bits, U64Bits - 1, U64Bits, U128Bits - 1, U128Bits}

\* the states of an NFA of n states that its transitions join: the first,
\* the middle and the last one, and the states 32 and 64
Marked(n) == {0, n \div 2, n - 1} \cup ({U32Bits, U64Bits} \cap StatesOf(n))

\* the largest number of transitions of a wide NFA
MaxWideTrans == 2

\* a well-formed NFA of n states; all but the marked states are isolated
InitWide ==
    /\ \E n \in WideSizes :
          \E I \in {{0}, {0, n - 1}},
             F \in {{n - 1}, {n \div 2}},
             T \in SubsetsUpTo(Marked(n) \X Letters \X Marked(n), MaxWideTrans) :
                a = MkNFA(Letters, n, I, F, T)
    /\ b = new_empty(Letters)
    /\ word = <<>>
    /\ range = NoRange
    /\ op = "init"
    /\ out = FALSE
    /\ calls = 0

DoToDfaEncoded ==
    /\ op = "init"
    /\ \E ord \in Orders, checks \in BOOLEAN :
          out' = NFA_to_dfa_encoded(a, ord, checks)
    /\ op' = "to_dfa_encoded"
    /\ UNCHANGED <<a, b, word, range, calls>>

SpecWide == InitWide /\ [][DoToDfaEncoded]_vars

\* C27: with the width to_dfa picks from the number of states, every state
\* index is below the width, so no shift overflows; distinct subsets get
\* distinct keys; and the DFA is the one the ordered-set encoding gives
C27_EncodingDoesNotMatter ==
    op = "to_dfa_encoded" /\ ~NFA_is_empty(a) =>
        LET n == NumStates(a)
            W == EncodingWidth(n)
        IN /\ W = 0 <=> n >= U128Bits
           /\ W # 0 => \A q \in StatesOf(n) : q < W
           /\ ~out.panic
           /\ \E ord \in Orders :
                 /\ out.dfa = big_to_dfa(a, ord)
                 /\ W # 0 =>
                       LET found == BreadthFirst(a, ord)
                       IN \A i, j \in 1..Len(found) :
                             KeyAt(found[i], W) = KeyAt(found[j], W) => i = j

\* an NFA of 64 states or more determinised with the u128 encoding, one of
\* its subsets holding the states 0 and 64
C27_Witness ==
    /\ op = "to_dfa_encoded"
    /\ ~NFA_is_empty(a)
    /\ NumStates(a) >= U64Bits
    /\ EncodingWidth(NumStates(a)) = U128Bits
    /\ \E q \in StatesOf(NumStates(a)) : Get(Row(a, q), "x") = {0, U64Bits}
    /\ Len(out.dfa.transitions) >= 2

(***************************************************************************)
(* The rules of the simplifier for Concat and Repeat (claims C28 to C30).  *)
(***************************************************************************)
\* some Concat of the tree has an Empty child
RECURSIVE HasConcatWithEmptyChild(_)
HasConcatWithEmptyChild(o) ==
    \/ o.tag = "Concat" /\ \E i \in 1..Len(o.seq) : o.seq[i] = Empty
    \/ \E x \in o.set : HasConcatWithEmptyChild(x)
    \/ \E i \in 1..Len(o.seq) : HasConcatWithEmptyChild(o.seq[i])

\* C28: a Concat one of whose children simplifies to Empty simplifies to
\* Empty, and no tree simplify returns holds a Concat with an Empty child
C28_ConcatWithEmptyIsEmpty ==
    op = "simplify" =>
        /\ ~HasConcatWithEmptyChild(out.regex)
        /\ (a.regex.tag = "Concat"
            /\ \E i \in 1..Len(a.regex.seq) : simplify(a.regex.seq[i]) = Empty)
              => out.regex = Empty

\* C29: a Concat whose children all simplify to Epsilon simplifies to Epsilon
C29_ConcatOfEpsilonsIsEpsilon ==
    (/\ op = "simplify"
     /\ a.regex.tag = "Concat"
     /\ \A i \in 1..Len(a.regex.seq) : simplify(a.regex.seq[i]) = Epsilon)
        => out.regex = Epsilon

\* C29 for the Concats whose children are Epsilon as written
C29_ConcatOfWrittenEpsilons ==
    (/\ op = "simplify"
     /\ a.regex.tag = "Concat"
     /\ \A i \in 1..Len(a.regex.seq) : a.regex.seq[i] = Epsilon)
        => out.regex = Epsilon

\* the child of the Repeat simplified simplifies to Empty
RepeatOfEmpty ==
    /\ op = "simplify"
    /\ a.regex.tag = "Repeat"
    /\ simplify(a.regex.seq[1]) = Empty

\* C30: a Repeat from 0 of a tree that simplifies to Empty simplifies to
\* Epsilon itself, and a Repeat from lo > 0 up to hi >= lo of such a tree
\* simplifies to Empty
C30_RepeatOfEmpty ==
    RepeatOfEmpty =>
        /\ a.regex.min = 0 => out.regex = Epsilon
        /\ (a.regex.min > 0
            /\ (a.regex.max = NoMax \/ a.regex.min <= a.regex.max))
              => out.regex = Empty

\* C30 for a positive lower bound, and for the bounds 0 to 0
C30_RepeatOfEmptyFromPositive ==
    RepeatOfEmpty =>
        /\ a.regex.min = 0 /\ a.regex.max = 0 => out.regex = Epsilon
        /\ (a.regex.min > 0
            /\ (a.regex.max = NoMax \/ a.regex.min <= a.regex.max))
              => out.regex = Empty

=============================================================================
